---- MODULE Spec2Model ----
(***************************************************************************)
(* Ulyxes: the total station session (pyapi/totalstation.py), the Trimble  *)
(* 5500 reply decoder (pyapi/trimble5500.py) and the Angle value           *)
(* (ulyxes/__init__.py).                                                   *)
(*                                                                         *)
(* Angles: the radian value an Angle holds is represented by the whole     *)
(* number of arcseconds it stands for, so pi is 648000 and 2*pi is         *)
(* 1296000.  One gon is 3240 arcseconds, one degree 3600.                  *)
(***************************************************************************)
EXTENDS Integers, Sequences, FiniteSets, TLC

VARIABLES
    \* ---- the session (TotalStation) ----
    mu,          \* the MeasureUnit variant of the session
    ifState,     \* measureIface.state
    dir,         \* the direction the instrument points to, [hz, v]
    op,          \* the session operation the caller issued last
    arg,         \* its angle arguments, [hz, v]
    pc,          \* "idle", "send" (a command is about to be written),
                 \* "wait" (its reply is awaited), "done" (the operation returned)
    i,           \* GetMeasure's counter i
    msg,         \* the command handed to _process
    sent,        \* the commands written to the transport in this operation
    inflight,    \* commands written whose reply or timeout is not resolved yet
    meas,        \* what the last _process returned
    angles,      \* the local holding the angles read (res / angles / a / ans)
    got,         \* the angles as decoded from the last get-angles reply
    ret,         \* the value the operation returned, [isNone, val]
    raised,      \* the exception the operation ended with, "" when none
    muCalls,     \* the MeasureUnit methods the operation called, in order
    firstDist,   \* the round trip of this operation whose reply first had distance
    failedAt,    \* the round trip of this operation at which the transport failed
    dirAtMove,   \* the instrument direction when the Move command was written
    dirAfterMove,\* the direction the instrument took on executing the Move
    \* ---- Trimble5500.Result ----
    msgList,     \* the request, split on '|': TRUE for a part that is not blank
    part,        \* the reply part being read (1-based)
    res,         \* the dictionary built so far
    decRaised,   \* Result ended with ValueError
    decDone,     \* Result returned
    tokens,      \* code -> last number, over the `code=number` lines of the reply
    garbled,     \* the reply held a line with '=' whose code is not an integer
    badValue,    \* the reply held a line of a decoded code whose value is no number
    \* ---- NmeaGnssUnit.Result ----
    nmeaMsg,     \* msg, the sentence type asked for
    nmeaAns,     \* ans, the sentence received
    nmeaRes,     \* what Result returned, [isNone, val]
    nmeaDone,    \* Result returned
    \* ---- Angle objects ----
    heap,        \* object -> its _value, in arcseconds
    refA,        \* the object one holder's name is bound to
    refB,        \* the object a second holder's name is bound to, 0 for none
    aOp,         \* the operation applied last, "" for none
    aOther,      \* the type of its right operand
    aRaised,     \* the exception it raised, "" for none
    refABefore,  \* refA and refB as they were before that operation
    refBBefore,
    valABefore,  \* the values their objects had then
    valBBefore,
    \* ---- Angle conversions ----
    convIn,      \* the angle given, in arcseconds
    convOp,      \* "normalize", "dms" or "pdeg", "" before the first step
    convStage,   \* 0 given, 1 normalized or formatted, 2 normalized again or parsed
    convPos,     \* the positive flag of the normalization
    convNorm,    \* normalize_rad of the angle given
    convDms,     \* the text rad2dms made, [signum, items]
    convPdeg,    \* the number rad2pdeg made, in units of 0.0001
    convOut,     \* the angle after the second step
    convRaised,  \* the exception of the second step, "" for none
    \* ---- HorizontalSection.run ----
    hsPc,        \* the line run() is at: "l58" ... "l136", "returned", "raised"
    hsState,     \* ts.measureIface.state
    elev,        \* self.elev, [isNone, val]
    hzStart,     \* self.hz_start is not None
    maxiter,     \* self.maxiter
    tol,         \* self.tol
    startp,      \* the measurement of the start point
    nextp,       \* the measurement of the point of the sweep
    hsI,         \* the counter i of the start point polling
    height0,     \* the height of the section
    height,      \* the height of nextp computed last
    index,       \* the iterations of the elevation loop at this point
    act,         \* the angle swept from the start point
    w,           \* the flag w
    accepted,    \* the points line 129 takes for a record, [height, hasV]
    swept,       \* an operation of the sweep was issued
    lastOp,      \* the session operation issued last
    relHz,       \* the hz_rel of the MoveRel issued last
    nRemeas,     \* GetMeasure calls inside the elevation loop at this point
    nStepRot,    \* MoveRel(stepinterval, 0) calls of the run
    hsRet,       \* what run() returned, -1 before it returns
    hsRaised,    \* the exception run() ended with, "" for none
    \* ---- measuretoprism.py ----
    mpPc,        \* "idle", "l112" (before the initialisation), "loop",
                 \* "exited", "raised"
    mode,        \* the measure mode, 0..5
    mpState,     \* ts.measureIface.state
    slopeDist,   \* the distance met last
    measurement, \* the reply read last
    last_hz,     \* mode 5: the direction of the point stored last
    last_v,
    prev_hz,     \* mode 5: the direction of the point examined last
    prev_v,
    moving,      \* mode 5: the flag moving
    mpN,         \* mode 5: the counter n
    mpRaised,    \* the exception the program ended with, "" for none
    cycHz,       \* the angles read by the cycle before this one
    cycV,
    consec,      \* moving cycles under the limit in a row, the last included
    cycTrans,    \* what the last cycle did: "", "stop" or "move"
    nMeasure,    \* Measure calls of the last cycle
    nRecord,     \* records handed to the writer in the last cycle
    rec,         \* the record of the last cycle, [hz, v, d, fresh]
    \* --- VideoIface (videoiface.py) ---
    viSource,    \* what the interface was constructed on
    viState,     \* self.state
    viFrames,    \* frames a file source still holds
    viOp,        \* the call made last: "", "GetImage" or "reset"
    viRet,       \* what the last GetImage returned: "", "None" or "img"
    viRead,      \* whether the last GetImage read the source
    viWasReset,  \* whether the caller has set the state since construction
    viReads,     \* reads of the source since construction
    \* --- ConfReader.Check (confreader.py) ---
    crPars,      \* self.pars
    crJson0,     \* self.json as loaded
    crJson,      \* self.json
    crRet,       \* what Check returned: "", "True", "False" or "TypeError"
    crPc,        \* "idle", "loaded" or "checked"
    \* --- measuretoprism.py under an interrupt signal ---
    cxPc,        \* "idle", "l110", "init", "try", "loop", "cycle", "exited"
    cxMode,      \* the measure mode, 0..5
    cxOps,       \* the instrument operations the phase has still to issue
    cxInflight,  \* the operation whose reply is awaited, "" for none
    cxState,     \* ts.measureIface.state
    cxExit,      \* how the program ended: "", "state" or "SystemExit"
    cxAbandoned, \* the operation whose reply was awaited at the exit
    cxAt,        \* where the program was at the exit
    cxSwallowed, \* whether an interrupt was caught by line 140
    cxIssuedAfter, \* operations issued after an interrupt was caught
    cxCycles     \* cycles begun

sessVars == <<mu, ifState, dir, op, arg, pc, i, msg, sent, inflight, meas,
              angles, got, ret, raised, muCalls, firstDist, failedAt,
              dirAtMove, dirAfterMove>>
decVars == <<msgList, part, res, decRaised, decDone, tokens, garbled,
             badValue>>
nmeaVars == <<nmeaMsg, nmeaAns, nmeaRes, nmeaDone>>
angVars == <<heap, refA, refB, aOp, aOther, aRaised, refABefore, refBBefore,
             valABefore, valBBefore>>
convVars == <<convIn, convOp, convStage, convPos, convNorm, convDms, convPdeg,
              convOut, convRaised>>
hsVars == <<hsPc, hsState, elev, hzStart, maxiter, tol, startp, nextp, hsI,
            height0, height, index, act, w, accepted, swept, lastOp, relHz,
            nRemeas, nStepRot, hsRet, hsRaised>>
mpVars == <<mpPc, mode, mpState, slopeDist, measurement, last_hz, last_v,
            prev_hz, prev_v, moving, mpN, mpRaised, cycHz, cycV, consec,
            cycTrans, nMeasure, nRecord, rec>>
viVars == <<viSource, viState, viFrames, viOp, viRet, viRead, viWasReset,
            viReads>>
crVars == <<crPars, crJson0, crJson, crRet, crPc>>
cxVars == <<cxPc, cxMode, cxOps, cxInflight, cxState, cxExit, cxAbandoned,
            cxAt, cxSwallowed, cxIssuedAfter, cxCycles>>
vars == <<sessVars, decVars, nmeaVars, angVars, convVars, hsVars, mpVars,
          viVars, crVars, cxVars>>

\* What a specification leaves alone.
nonSessVars == <<decVars, nmeaVars, angVars, convVars, hsVars,
                mpVars, viVars, crVars, cxVars>>
nonDecVars == <<sessVars, nmeaVars, angVars, convVars, hsVars,
                mpVars, viVars, crVars, cxVars>>
nonNmeaVars == <<sessVars, decVars, angVars, convVars, hsVars,
                mpVars, viVars, crVars, cxVars>>
nonAngVars == <<sessVars, decVars, nmeaVars, convVars, hsVars,
                mpVars, viVars, crVars, cxVars>>
nonConvVars == <<sessVars, decVars, nmeaVars, angVars, hsVars,
                mpVars, viVars, crVars, cxVars>>
nonHsVars == <<sessVars, decVars, nmeaVars, angVars, convVars, mpVars, viVars, crVars, cxVars>>
nonMpVars == <<sessVars, decVars, nmeaVars, angVars, convVars, hsVars,
               viVars, crVars, cxVars>>
nonViVars == <<sessVars, decVars, nmeaVars, angVars, convVars, hsVars,
               mpVars, crVars, cxVars>>
nonCrVars == <<sessVars, decVars, nmeaVars, angVars, convVars, hsVars,
               mpVars, viVars, cxVars>>
nonCxVars == <<sessVars, decVars, nmeaVars, angVars, convVars, hsVars,
               mpVars, viVars, crVars>>

(***************************************************************************)
(* Angle (src/ulyxes/__init__.py)                                          *)
(***************************************************************************)
PI2 == 1296000

deg2rad(angle) == angle * 3600

gon2rad(angle) == angle * 3240

\* Whole gons; a comparison with a whole number of gons is not affected.
rad2gon(angle) == angle \div 3240

\* angle is the dd.mmss number times 10000 (the four decimals the
\* instruments send).
pdeg2rad(angle) ==
    LET d == angle \div 10000
        m == (angle % 10000) \div 100
        s == angle % 100
    IN  d * 3600 + m * 60 + s

AngleAdd(a, b) == a + b

AngleSub(a, b) == a - b

\* angle.py is not among the sources: Positive() brings a negative value
\* into [0, 2*pi) by adding full circles and leaves any other value alone.
Positive(a) == IF a < 0 THEN a % PI2 ELSE a

(***************************************************************************)
(* Measurements: functions from field names to numbers.                    *)
(***************************************************************************)
EmptyMeas == [f \in {} |-> 0]

Has(m, f) == f \in DOMAIN m

NoRet == [isNone |-> FALSE, val |-> EmptyMeas]
RetNone == [isNone |-> TRUE, val |-> EmptyMeas]
RetVal(m) == [isNone |-> FALSE, val |-> m]

NoArg == [hz |-> 0, v |-> 0]
Cmd(name) == [name |-> name, hz |-> 0, v |-> 0]
NoMsg == Cmd("")

(***************************************************************************)
(* MeasureUnit variants                                                    *)
(***************************************************************************)
Units == {"Trimble5500", "LeicaTCRA1100", "LeicaTPS1200"}

Trimble5500Capabilities ==
    {"ROBOT", "ANGLE", "EDM", "RL", "LASER", "POSITION"}

LeicaTCRA1100Capabilities ==
    {"ROBOT", "ANGLE", "EDM", "ATR", "LOCK", "RL", "LASER", "POSITION"}

LeicaTPS1200Capabilities ==
    {"ROBOT", "ANGLE", "EDM", "ATR", "LOCK", "RL", "POWERSEARCH", "LASER",
     "POSITION"}

GetCapabilities(u) ==
    CASE u = "Trimble5500" -> Trimble5500Capabilities
      [] u = "LeicaTCRA1100" -> LeicaTCRA1100Capabilities
      [] u = "LeicaTPS1200" -> LeicaTPS1200Capabilities

\* TRUE when the variant has a change-face command of its own.
ChangeFaceMsg(u) == u # "Trimble5500"

\* edmProg of the variant holds the program name 'CLEAR'.
HasClearPrg(u) == u # "Trimble5500"

(***************************************************************************)
(* The instrument behind the Transport                                     *)
(***************************************************************************)
HzVals == {gon2rad(50), deg2rad(10)}
VVals == {gon2rad(80), gon2rad(200)}
RelHz == {0, deg2rad(180), -deg2rad(180)}
RelV == {0, gon2rad(200)}
\* The Measurement _process returns when the transport state is not OK.
ErrMeas == ("errorCode" :> 1)

\* What the reply to command c may decode to while the transport is OK.
Decoded(c) ==
    CASE c.name = "GetAngles" ->
            { ("hz" :> dir.hz) @@ ("v" :> dir.v), ("hz" :> dir.hz), EmptyMeas }
      [] c.name = "GetMeasure" ->
            { ("hz" :> dir.hz) @@ ("v" :> dir.v) @@ ("distance" :> 10),
              ("hz" :> dir.hz) @@ ("v" :> dir.v),
              EmptyMeas }
      [] OTHER -> { EmptyMeas, ErrMeas }

\* The instrument executes an accepted Move: it turns to the target.
Turned(c, m) ==
    IF c.name = "Move" /\ m = EmptyMeas
    THEN [hz |-> c.hz % PI2, v |-> c.v % PI2]
    ELSE dir

\* One round trip resolved: the transport state, the decoded Measurement and
\* the instrument direction afterwards.  A transport that is not OK stays so
\* until the caller resets it.
Outcomes(c) ==
    IF ifState # "OK"
    THEN { [st |-> ifState, m |-> ErrMeas, d |-> dir] }
    ELSE { [st |-> "TIMEOUT", m |-> ErrMeas, d |-> dir] }
         \cup { [st |-> "OK", m |-> x, d |-> Turned(c, x)] : x \in Decoded(c) }

(***************************************************************************)
(* Instrument._process (pyapi/instrument.py is not among the sources): the *)
(* command is written to the transport, the reply is read and decoded.     *)
(***************************************************************************)
\* The write half: the command goes to the transport.
Send ==
    /\ pc = "send"
    /\ sent' = Append(sent, msg)
    /\ inflight' = inflight + 1
    /\ dirAtMove' = IF msg.name = "Move" THEN dir ELSE dirAtMove
    /\ pc' = "wait"
    /\ UNCHANGED <<mu, ifState, dir, op, arg, i, msg, meas, angles, got, ret,
                   raised, muCalls, firstDist, failedAt, dirAfterMove>>
    /\ UNCHANGED nonSessVars

\* The read half, with outcome o: the reply or the timeout is resolved.
Receive(o) ==
    /\ inflight' = inflight - 1
    /\ ifState' = o.st
    /\ meas' = o.m
    /\ dir' = o.d
    /\ failedAt' = IF failedAt = 0 /\ ifState = "OK" /\ o.st # "OK"
                   THEN Len(sent) ELSE failedAt
    /\ firstDist' = IF firstDist = 0 /\ Has(o.m, "distance")
                    THEN Len(sent) ELSE firstDist
    /\ dirAfterMove' = IF msg.name = "Move" /\ o.st = "OK" /\ o.m = EmptyMeas
                       THEN o.d ELSE dirAfterMove
    /\ got' = IF msg.name = "GetAngles" THEN o.m ELSE got

\* The operation returns value r.
Return(r) ==
    /\ ret' = r
    /\ pc' = "done"
    /\ msg' = NoMsg

\* The operation ends with exception e.
Raise(e) ==
    /\ raised' = e
    /\ ret' = NoRet
    /\ pc' = "done"
    /\ msg' = NoMsg

\* The operation goes on with the next command c.
Process(c) ==
    /\ msg' = c
    /\ pc' = "send"

\* Mutant: entering an operation sets the transport state back to OK.
Enter_Resets(o, a) ==
    /\ pc \in {"idle", "done"}
    /\ op' = o
    /\ arg' = a
    /\ i' = 0
    /\ sent' = <<>>
    /\ meas' = EmptyMeas
    /\ angles' = EmptyMeas
    /\ got' = EmptyMeas
    /\ firstDist' = 0
    /\ failedAt' = 0
    /\ dirAtMove' = NoArg
    /\ dirAfterMove' = NoArg
    /\ ifState' = "OK"
    /\ UNCHANGED <<mu, dir, inflight>>
    /\ UNCHANGED nonSessVars

\* The caller issues operation o with arguments a.
Enter(o, a) ==
    /\ pc \in {"idle", "done"}
    /\ op' = o
    /\ arg' = a
    /\ i' = 0
    /\ sent' = <<>>
    /\ meas' = EmptyMeas
    /\ angles' = EmptyMeas
    /\ got' = EmptyMeas
    /\ firstDist' = 0
    /\ failedAt' = 0
    /\ dirAtMove' = NoArg
    /\ dirAfterMove' = NoArg
    /\ UNCHANGED <<mu, ifState, dir, inflight>>
    /\ UNCHANGED nonSessVars

(***************************************************************************)
(* TotalStation (src/pyapi/totalstation.py)                                *)
(***************************************************************************)
MaxTry == 20
FACE_LEFT == 0
FACE_RIGHT == 1

\* Move: both angles are made positive, then encoded.
MoveCmd(hz, v) == [name |-> "Move", hz |-> Positive(hz), v |-> Positive(v)]

\* Mutants of the loop condition: one retry short; never stopping early.
PollAgain_OneShort(m, n) == ~Has(m, "distance") /\ n < MaxTry - 1
PollAgain_IgnoresField(m, n) == n < MaxTry

\* GetMeasure's loop condition.
PollAgain(m, n) == ~Has(m, "distance") /\ n < MaxTry

GetMeasure ==
    /\ Enter("GetMeasure", NoArg)
    /\ muCalls' = <<"GetMeasureMsg">>
    /\ raised' = ""
    /\ ret' = NoRet
    /\ Process(Cmd("GetMeasure"))

GetMeasureReply ==
    /\ op = "GetMeasure"
    /\ pc = "wait"
    /\ \E o \in Outcomes(msg) :
          /\ Receive(o)
          /\ IF PollAgain(o.m, i)
             THEN /\ i' = i + 1
                  /\ Process(msg)
                  /\ UNCHANGED ret
             ELSE /\ Return(RetVal(o.m))
                  /\ UNCHANGED i
    /\ UNCHANGED <<mu, op, arg, sent, angles, raised, muCalls, dirAtMove>>
    /\ UNCHANGED nonSessVars

\* Mutant: the zenith delta is dropped.
MoveRelTarget_NoV(r, hz_rel, v_rel) ==
    [hz |-> AngleAdd(r.hz, hz_rel), v |-> r.v]

\* The target MoveRel hands to Move.
MoveRelTarget(r, hz_rel, v_rel) ==
    [hz |-> AngleAdd(r.hz, hz_rel), v |-> AngleAdd(r.v, v_rel)]

MoveRel(hz_rel, v_rel) ==
    /\ Enter("MoveRel", [hz |-> hz_rel, v |-> v_rel])
    /\ muCalls' = <<"GetAnglesMsg">>
    /\ raised' = ""
    /\ ret' = NoRet
    /\ Process(Cmd("GetAngles"))

\* Mutant: without both angles the relative rotation is sent as a Move.
MoveRelReply_Blind ==
    /\ op = "MoveRel"
    /\ pc = "wait"
    /\ msg.name = "GetAngles"
    /\ \E o \in Outcomes(msg) :
          /\ Receive(o)
          /\ angles' = o.m
          /\ LET t == IF Has(o.m, "hz") /\ Has(o.m, "v")
                       THEN MoveRelTarget(o.m, arg.hz, arg.v)
                       ELSE arg
             IN  /\ Process(MoveCmd(t.hz, t.v))
                 /\ muCalls' = Append(muCalls, "MoveMsg")
                 /\ UNCHANGED ret
    /\ UNCHANGED <<mu, op, arg, i, sent, raised, dirAtMove>>
    /\ UNCHANGED nonSessVars

MoveRelReply ==
    /\ op = "MoveRel"
    /\ pc = "wait"
    /\ msg.name = "GetAngles"
    /\ \E o \in Outcomes(msg) :
          /\ Receive(o)
          /\ angles' = o.m
          /\ IF Has(o.m, "hz") /\ Has(o.m, "v")
             THEN LET t == MoveRelTarget(o.m, arg.hz, arg.v)
                  IN  /\ Process(MoveCmd(t.hz, t.v))
                      /\ muCalls' = Append(muCalls, "MoveMsg")
                      /\ UNCHANGED ret
             ELSE /\ Return(RetNone)
                  /\ UNCHANGED muCalls
    /\ UNCHANGED <<mu, op, arg, i, sent, raised, dirAtMove>>
    /\ UNCHANGED nonSessVars

Move(hz, v) ==
    /\ Enter("Move", [hz |-> hz, v |-> v])
    /\ muCalls' = <<"MoveMsg">>
    /\ raised' = ""
    /\ ret' = NoRet
    /\ Process(MoveCmd(hz, v))

Measure ==
    /\ Enter("Measure", NoArg)
    /\ muCalls' = <<"MeasureMsg">>
    /\ raised' = ""
    /\ ret' = NoRet
    /\ Process(Cmd("Measure"))

GetAngles ==
    /\ Enter("GetAngles", NoArg)
    /\ muCalls' = <<"GetAnglesMsg">>
    /\ raised' = ""
    /\ ret' = NoRet
    /\ Process(Cmd("GetAngles"))

\* Mutant: half a circle taken as 180 gon.
ChangeFaceTarget_Gon(a) ==
    [a EXCEPT !["hz"] = AngleAdd(@, gon2rad(180)),
              !["v"] = AngleSub(deg2rad(360), @)]

\* The angles ChangeFace moves to, from the angles read.
ChangeFaceTarget(a) ==
    [a EXCEPT !["hz"] = AngleAdd(@, deg2rad(180)),
              !["v"] = AngleSub(deg2rad(360), @)]

ChangeFace ==
    /\ Enter("ChangeFace", NoArg)
    /\ raised' = ""
    /\ ret' = NoRet
    /\ IF ChangeFaceMsg(mu)
       THEN /\ muCalls' = <<"ChangeFaceMsg">>
            /\ Process(Cmd("ChangeFace"))
       ELSE /\ muCalls' = <<"ChangeFaceMsg", "GetAnglesMsg">>
            /\ Process(Cmd("GetAngles"))

ChangeFaceReply ==
    /\ op = "ChangeFace"
    /\ pc = "wait"
    /\ msg.name = "GetAngles"
    /\ \E o \in Outcomes(msg) :
          /\ Receive(o)
          /\ IF ~Has(o.m, "hz")
             THEN /\ angles' = o.m
                  /\ Raise("KeyError")
                  /\ UNCHANGED muCalls
             ELSE IF ~Has(o.m, "v")
             THEN /\ angles' = [o.m EXCEPT !["hz"] = AngleAdd(@, deg2rad(180))]
                  /\ Raise("KeyError")
                  /\ UNCHANGED muCalls
             ELSE /\ angles' = ChangeFaceTarget(o.m)
                  /\ Process(MoveCmd(angles'["hz"], angles'["v"]))
                  /\ muCalls' = Append(muCalls, "MoveMsg")
                  /\ UNCHANGED <<ret, raised>>
    /\ UNCHANGED <<mu, op, arg, i, sent, dirAtMove>>
    /\ UNCHANGED nonSessVars

\* Mutant: 200 gon taken as face left.
FaceOf_Inclusive(v) == IF rad2gon(v) <= 200 THEN FACE_LEFT ELSE FACE_RIGHT

\* The face of zenith angle v.
FaceOf(v) == IF rad2gon(v) < 200 THEN FACE_LEFT ELSE FACE_RIGHT

GetFace ==
    /\ Enter("GetFace", NoArg)
    /\ muCalls' = <<"GetAnglesMsg">>
    /\ raised' = ""
    /\ ret' = NoRet
    /\ Process(Cmd("GetAngles"))

GetFaceReply ==
    /\ op = "GetFace"
    /\ pc = "wait"
    /\ \E o \in Outcomes(msg) :
          /\ Receive(o)
          /\ angles' = o.m
          /\ IF Has(o.m, "v")
             THEN Return(RetVal("face" :> FaceOf(o.m["v"])))
             ELSE Return(RetNone)
    /\ UNCHANGED <<mu, op, arg, i, sent, raised, muCalls, dirAtMove>>
    /\ UNCHANGED nonSessVars

\* Mutant: the orientation is set without clearing the distance first.
SetOri_NoClear(ori) ==
    /\ Enter("SetOri", [hz |-> ori, v |-> 0])
    /\ muCalls' = <<"SetOriMsg">>
    /\ raised' = ""
    /\ ret' = NoRet
    /\ Process([name |-> "SetOri", hz |-> ori, v |-> 0])

SetOri(ori) ==
    /\ Enter("SetOri", [hz |-> ori, v |-> 0])
    /\ IF HasClearPrg(mu)
       THEN /\ muCalls' = <<"MeasureMsg">>
            /\ raised' = ""
            /\ ret' = NoRet
            /\ Process(Cmd("Measure"))
       ELSE /\ muCalls' = <<>>
            /\ Raise("KeyError")

SetOriReply ==
    /\ op = "SetOri"
    /\ pc = "wait"
    /\ msg.name = "Measure"
    /\ \E o \in Outcomes(msg) :
          /\ Receive(o)
          /\ angles' = o.m
          /\ IF Has(o.m, "errCode")
             THEN /\ Return(RetVal(o.m))
                  /\ UNCHANGED muCalls
             ELSE /\ Process([name |-> "SetOri", hz |-> arg.hz, v |-> 0])
                  /\ muCalls' = Append(muCalls, "SetOriMsg")
                  /\ UNCHANGED ret
    /\ UNCHANGED <<mu, op, arg, i, sent, raised, dirAtMove>>
    /\ UNCHANGED nonSessVars

\* The operations that need an optional capability.
CapOps == {"SetATR", "SetLock", "LockIn", "PowerSearch"}

NeedsCap(o) ==
    CASE o = "SetATR" -> "ATR"
      [] o = "SetLock" -> "LOCK"
      [] o = "LockIn" -> "LOCK"
      [] o = "PowerSearch" -> "POWERSEARCH"

MsgMethod(o) ==
    CASE o = "SetATR" -> "SetATRMsg"
      [] o = "SetLock" -> "SetLockMsg"
      [] o = "LockIn" -> "LockInMsg"
      [] o = "PowerSearch" -> "PowerSearchMsg"

\* The variant encodes operation o; a variant without the capability fails
\* with an unsupported-capability error and no command.
Encodes(u, o) == NeedsCap(o) \in GetCapabilities(u)

\* SetATR, SetLock, LockIn, PowerSearch: encode, then _process.
Dispatch(o) ==
    /\ Enter(o, NoArg)
    /\ muCalls' = <<MsgMethod(o)>>
    /\ IF Encodes(mu, o)
       THEN /\ raised' = ""
            /\ ret' = NoRet
            /\ Process(Cmd(o))
       ELSE Raise("unsupported")

\* return self._process(msg): the operation returns what the round trip gave.
IsLast ==
    /\ msg.name # "GetMeasure"
    /\ ~(msg.name = "GetAngles" /\ op \in {"MoveRel", "ChangeFace", "GetFace"})
    /\ ~(msg.name = "Measure" /\ op = "SetOri")

ProcessReturn ==
    /\ pc = "wait"
    /\ IsLast
    /\ \E o \in Outcomes(msg) :
          /\ Receive(o)
          /\ Return(RetVal(o.m))
    /\ UNCHANGED <<mu, op, arg, i, sent, angles, raised, muCalls, dirAtMove>>
    /\ UNCHANGED nonSessVars

(***************************************************************************)
(* The surroundings of the session                                         *)
(***************************************************************************)
\* The instrument is turned by something else than this session while an
\* operation runs (a turn between two operations is a turn before the first
\* command of the next one is written).
Drift ==
    /\ pc \in {"send", "wait"}
    /\ \E h \in HzVals, z \in VVals :
          /\ dir # [hz |-> h, v |-> z]
          /\ dir' = [hz |-> h, v |-> z]
    /\ UNCHANGED <<mu, ifState, op, arg, pc, i, msg, sent, inflight, meas,
                   angles, got, ret, raised, muCalls, firstDist, failedAt,
                   dirAtMove, dirAfterMove>>
    /\ UNCHANGED nonSessVars

\* The caller resets the transport state between two operations.
ResetState ==
    /\ pc \in {"idle", "done"}
    /\ ifState # "OK"
    /\ ifState' = "OK"
    /\ UNCHANGED <<mu, dir, op, arg, pc, i, msg, sent, inflight, meas,
                   angles, got, ret, raised, muCalls, firstDist, failedAt,
                   dirAtMove, dirAfterMove>>
    /\ UNCHANGED nonSessVars

\* No record yet.
NoRec == [hz |-> 0, v |-> 0, d |-> 0, fresh |-> FALSE]

\* No VideoIface is constructed.
ViIdle ==
    /\ viSource = [type |-> "", isfile |-> FALSE, live |-> FALSE, frames |-> 0]
    /\ viState = "OK"
    /\ viFrames = 0
    /\ viOp = ""
    /\ viRet = ""
    /\ viRead = FALSE
    /\ viWasReset = FALSE
    /\ viReads = 0

\* No ConfReader is constructed.
CrIdle ==
    /\ crPars = <<>>
    /\ crJson0 = <<>>
    /\ crJson = <<>>
    /\ crRet = ""
    /\ crPc = "idle"

\* measuretoprism.py is not run under an interrupt.
CxIdle ==
    /\ cxPc = "idle"
    /\ cxMode = 0
    /\ cxOps = <<>>
    /\ cxInflight = ""
    /\ cxState = "OK"
    /\ cxExit = ""
    /\ cxAbandoned = ""
    /\ cxAt = ""
    /\ cxSwallowed = FALSE
    /\ cxIssuedAfter = 0
    /\ cxCycles = 0

\* The programs outside the specifications of the library are not started.
AppsIdle == ViIdle /\ CrIdle /\ CxIdle

\* measuretoprism.py is not started.
MpIdle ==
    /\ mpPc = "idle"
    /\ mode = 0
    /\ mpState = "OK"
    /\ slopeDist = 0
    /\ measurement = <<>>
    /\ last_hz = 0
    /\ last_v = 0
    /\ prev_hz = 0
    /\ prev_v = 0
    /\ moving = FALSE
    /\ mpN = 0
    /\ mpRaised = ""
    /\ cycHz = 0
    /\ cycV = 0
    /\ consec = 0
    /\ cycTrans = ""
    /\ nMeasure = 0
    /\ nRecord = 0
    /\ rec = NoRec

\* run() is not called.
HsIdle ==
    /\ hsPc = "idle"
    /\ hsState = "OK"
    /\ elev = [isNone |-> TRUE, val |-> 0]
    /\ hzStart = FALSE
    /\ maxiter = 0
    /\ tol = 0
    /\ startp = <<>>
    /\ nextp = <<>>
    /\ hsI = 0
    /\ height0 = 0
    /\ height = 0
    /\ index = 0
    /\ act = 0
    /\ w = FALSE
    /\ accepted = <<>>
    /\ swept = FALSE
    /\ lastOp = ""
    /\ relHz = 0
    /\ nRemeas = 0
    /\ nStepRot = 0
    /\ hsRet = -1
    /\ hsRaised = ""

\* No conversion is under way.
ConvIdle ==
    /\ convIn = 0
    /\ convOp = ""
    /\ convStage = 0
    /\ convPos = FALSE
    /\ convNorm = 0
    /\ convDms = [signum |-> "", items |-> <<>>]
    /\ convPdeg = 0
    /\ convOut = 0
    /\ convRaised = ""

\* No Angle object exists.
AngIdle ==
    /\ heap = <<>>
    /\ refA = 0
    /\ refB = 0
    /\ aOp = ""
    /\ aOther = ""
    /\ aRaised = ""
    /\ refABefore = 0
    /\ refBBefore = 0
    /\ valABefore = 0
    /\ valBBefore = 0

\* No sentence is being decoded.
NmeaIdle ==
    /\ nmeaMsg = ""
    /\ nmeaAns = [tag |-> "", payload |-> <<>>, cksum |-> <<0, 0>>,
                  quality |-> 0, latHemi |-> "", lonHemi |-> ""]
    /\ nmeaRes = NoRet
    /\ nmeaDone = FALSE

DecIdle ==
    /\ msgList = <<>>
    /\ part = 0
    /\ res = EmptyMeas
    /\ decRaised = FALSE
    /\ decDone = FALSE
    /\ tokens = EmptyMeas
    /\ garbled = FALSE
    /\ badValue = FALSE

\* The session after construction, of variant u, the instrument pointing to d.
Constructed(u, d) ==
    /\ mu = u
    /\ ifState = "OK"
    /\ dir = d
    /\ op = ""
    /\ arg = NoArg
    /\ pc = "idle"
    /\ i = 0
    /\ msg = NoMsg
    /\ sent = <<>>
    /\ inflight = 0
    /\ meas = EmptyMeas
    /\ angles = EmptyMeas
    /\ got = EmptyMeas
    /\ ret = NoRet
    /\ raised = ""
    /\ muCalls = <<>>
    /\ firstDist = 0
    /\ failedAt = 0
    /\ dirAtMove = NoArg
    /\ dirAfterMove = NoArg

SessInit ==
    /\ \E u \in Units, d \in [hz : HzVals, v : VVals] : Constructed(u, d)
    /\ DecIdle
    /\ NmeaIdle
    /\ AngIdle
    /\ ConvIdle
    /\ HsIdle
    /\ MpIdle
    /\ AppsIdle

SessNext ==
    \/ GetMeasure
    \/ GetMeasureReply
    \/ \E h \in RelHz, z \in RelV : MoveRel(h, z)
    \/ MoveRelReply
    \/ \E h \in HzVals, z \in VVals : Move(h, z)
    \/ Measure
    \/ GetAngles
    \/ ChangeFace
    \/ ChangeFaceReply
    \/ GetFace
    \/ GetFaceReply
    \/ \E h \in HzVals : SetOri(h)
    \/ SetOriReply
    \/ \E o \in CapOps : Dispatch(o)
    \/ ProcessReturn
    \/ Send
    \/ Drift
    \/ ResetState

SpecSession == SessInit /\ [][SessNext]_vars

(***************************************************************************)
(* Properties of the session                                               *)
(***************************************************************************)
Names(q) == [n \in 1..Len(q) |-> q[n].name]

IsPrefix(p, q) == Len(p) <= Len(q) /\ \A n \in 1..Len(p) : p[n] = q[n]

\* Two angles that are the same direction.
SameDir(a, b) == (a - b) % PI2 = 0

GaveUp == op = "GetMeasure" /\ pc = "done" /\ firstDist = 0

\* C1 (amended): when no reply of a GetMeasure ever decodes to a Measurement
\* with distance, the session gives up after MaxTry + 1 = 21 round trips (the
\* first one and 20 retries) and returns the last decoded Measurement
\* without raising.
C1_GivesUpAfterRetries ==
    GaveUp =>
        /\ Len(sent) = MaxTry + 1
        /\ \A n \in 1..Len(sent) : sent[n] = Cmd("GetMeasure")
        /\ ret = RetVal(meas)
        /\ ~Has(ret.val, "distance")
        /\ raised = ""

C1_Witness == GaveUp /\ Len(sent) = MaxTry + 1 /\ i = MaxTry

\* C1 as stated: the session gives up after 20 round trips in total.
C1_Original == GaveUp => Len(sent) = MaxTry

\* C2: when distance first appears in the reply to the k-th round trip of a
\* GetMeasure, the operation has returned a Measurement with distance, k
\* commands were written and none is written after that reply.
C2_StopsAtFirstDistance ==
    (op = "GetMeasure" /\ firstDist # 0) =>
        /\ pc = "done"
        /\ ~ret.isNone
        /\ Has(ret.val, "distance")
        /\ Len(sent) = firstDist
        /\ inflight = 0

C2_Witness == op = "GetMeasure" /\ pc = "done" /\ firstDist = 5

\* C3 as stated, for the operations it names: once the transport state has
\* become non-OK during a GetMeasure, a MoveRel or a ChangeFace, no further
\* command is written within that operation.
C3_ShortCircuit ==
    (op \in {"GetMeasure", "MoveRel", "ChangeFace"} /\ failedAt # 0) =>
        Len(sent) = failedAt

\* The commands of each operation, in the order of its code.
Program ==
    CASE op = "MoveRel" -> <<"GetAngles", "Move">>
      [] op = "ChangeFace" ->
            IF ChangeFaceMsg(mu) THEN <<"ChangeFace">> ELSE <<"GetAngles", "Move">>
      [] op = "SetOri" -> <<"Measure", "SetOri">>
      [] op = "GetFace" -> <<"GetAngles">>
      [] op = "GetMeasure" -> [n \in 1..(MaxTry + 1) |-> "GetMeasure"]
      [] op = "" -> <<>>
      [] OTHER -> <<op>>

\* C4: requests and replies alternate (at most one command is unresolved,
\* none when the session writes the next one or returns), and the commands
\* of an operation reach the transport in the order of its code, one per
\* logical request.
C4_Alternation ==
    /\ inflight \in {0, 1}
    /\ (pc = "wait") = (inflight = 1)
    /\ IsPrefix(Names(sent), Program)

C4_Witness ==
    /\ op = "MoveRel" /\ pc = "wait" /\ inflight = 1
    /\ Names(sent) = <<"GetAngles", "Move">>

\* C32: no operation of the session sets the transport state back to OK: a
\* state that is not OK becomes OK only by the reset of the caller, between
\* two operations.
C32_NoAutoRecover ==
    [][(ifState # "OK" /\ ifState' = "OK") =>
          /\ pc \in {"idle", "done"}
          /\ UNCHANGED <<pc, op, arg, msg, sent, inflight, ret, raised>>
      ]_vars

\* An operation entered with a failed transport has written its command and
\* returned: the transport is still failed.
C32_Witness ==
    /\ op = "Measure" /\ pc = "done"
    /\ Len(sent) = 1 /\ failedAt = 0
    /\ ifState = "TIMEOUT"

\* C35: SetOri writes the clear (a Measure) first and the set-orientation
\* command second, after the reply to the clear; when that reply carries an
\* error code SetOri returns it and writes no set-orientation command.
C35_SetOriOrdering ==
    op = "SetOri" =>
        /\ \A k \in 1..Len(sent) :
              sent[k].name = "SetOri" => (k = 2 /\ sent[1].name = "Measure")
        /\ Has(angles, "errorCode") =>
              /\ \A k \in 1..Len(sent) : sent[k].name # "SetOri"
              /\ msg.name # "SetOri"
              /\ pc = "done" /\ ret = RetVal(angles)

\* The angle read of MoveRel or of the ChangeFace put together from GetAngles
\* and Move gave no hz or no v.
BlindRead ==
    /\ \/ op = "MoveRel"
       \/ op = "ChangeFace" /\ ~ChangeFaceMsg(mu)
    /\ Len(sent) >= 1 /\ ~(Len(sent) = 1 /\ pc = "wait")
    /\ ~Has(got, "hz") \/ ~Has(got, "v")

\* C37: after an angle read without hz or without v neither MoveRel nor the
\* ChangeFace put together writes a Move: the operation is over with the one
\* command written, and MoveRel has returned None.
C37_NeverMovesBlind ==
    BlindRead =>
        /\ Names(sent) = <<"GetAngles">>
        /\ pc = "done" /\ inflight = 0
        /\ op = "MoveRel" => (ret = RetNone /\ raised = "")

C37_Witness ==
    /\ op = "MoveRel" /\ pc = "done"
    /\ Has(got, "hz") /\ ~Has(got, "v")
    /\ ret = RetNone
    /\ ifState = "OK"

\* C5 as stated: an operation whose capability the variant lacks queries the
\* capability set first, fails as unsupported and writes no command.
C5_CapabilityQueried ==
    (op \in CapOps /\ pc = "done" /\ NeedsCap(op) \notin GetCapabilities(mu)) =>
        /\ muCalls # <<>>
        /\ muCalls[1] = "GetCapabilities"
        /\ raised = "unsupported"
        /\ sent = <<>>

ChangedFace == op = "ChangeFace" /\ pc = "done" /\ raised = ""

\* C6 (amended): without a change-face command of its own the session reads
\* the angles and writes one Move to (hz + 180 deg, 360 deg - v); for
\* (hz = 50 gon, v = 80 gon) the target is (hz = 250 gon, v = 320 gon).
\* With a command of its own exactly that command is written.
C6_ChangeFace ==
    ChangedFace =>
        IF ChangeFaceMsg(mu)
        THEN sent = <<Cmd("ChangeFace")>>
        ELSE /\ Len(sent) = 2
             /\ sent[1] = Cmd("GetAngles")
             /\ sent[2] = [name |-> "Move",
                           hz |-> got.hz + deg2rad(180),
                           v |-> deg2rad(360) - got.v]
             /\ (got.hz = gon2rad(50) /\ got.v = gon2rad(80)) =>
                    (sent[2].hz = gon2rad(250) /\ sent[2].v = gon2rad(320))

C6_Witness ==
    /\ ChangedFace /\ ~ChangeFaceMsg(mu)
    /\ got.hz = gon2rad(50) /\ got.v = gon2rad(80)
    /\ Len(sent) = 2

\* C6 as stated: for (hz = 50 gon, v = 80 gon) the target is
\* (hz = 230 gon, v = 320 gon).
C6_Original ==
    (ChangedFace /\ ~ChangeFaceMsg(mu)
        /\ got.hz = gon2rad(50) /\ got.v = gon2rad(80)) =>
            (sent[2].hz = gon2rad(230) /\ sent[2].v = gon2rad(320))

MovedRel == op = "MoveRel" /\ pc = "done" /\ ~ret.isNone

\* C7: a MoveRel that moves is two round trips, get-angles then Move, the
\* Move pointing to the direction (hz read + hz_rel, v read + v_rel); the
\* instrument ends at that target whatever its direction was when the Move
\* was written.
C7_MoveRelStale ==
    MovedRel =>
        /\ Len(sent) = 2
        /\ sent[1] = Cmd("GetAngles")
        /\ sent[2].name = "Move"
        /\ SameDir(sent[2].hz, got.hz + arg.hz)
        /\ SameDir(sent[2].v, got.v + arg.v)
        /\ dirAfterMove # NoArg =>
              /\ dirAfterMove.hz = (got.hz + arg.hz) % PI2
              /\ dirAfterMove.v = (got.v + arg.v) % PI2

\* The instrument was turned between the angle reply and the Move.
C7_Witness ==
    /\ MovedRel
    /\ dirAfterMove # NoArg
    /\ dirAtMove.v # got.v
    /\ dirAfterMove.v # (dirAtMove.v + arg.v) % PI2
    /\ got.hz + arg.hz < 0

\* C8: GetFace answers face left (0) for a zenith below 200 gon, face right
\* (1) for any other zenith, and None when the angles read hold no v.
C8_GetFace ==
    (op = "GetFace" /\ pc = "done") =>
        IF Has(got, "v")
        THEN /\ ~ret.isNone
             /\ ret.val = ("face" :> (IF got.v < gon2rad(200) THEN 0 ELSE 1))
        ELSE ret.isNone

C8_Witness ==
    /\ op = "GetFace" /\ pc = "done"
    /\ Has(got, "v") /\ got.v = gon2rad(200)
    /\ ret.val = ("face" :> 1)

(***************************************************************************)
(* Trimble5500.Result                                                      *)
(***************************************************************************)
MaxMsgParts == 2
MaxAnsParts == 3

\* The message codes Result looks at, and one it does not decode.
codes == [HA |-> 7, VA |-> 8, SD |-> 9, PC |-> 20,
          NORTHING |-> 37, EASTING |-> 38, ELE |-> 39]

ReplyCodes == {codes.HA, codes.VA, codes.SD, codes.PC,
               codes.NORTHING, codes.EASTING, codes.ELE}

\* The lines a reply part is made of: a line without '=', a line with '='
\* whose left side is no integer, a `code=value` line whose value is a number
\* (angles as dd.mmss in units of 0.0001) or is not one.
ReplyValue(c) ==
    CASE c = codes.HA -> 103020
      [] c = codes.VA -> 900000
      [] OTHER -> c + 100

Lines ==
    {[kind |-> "plain", code |-> 0, val |-> 0, numeric |-> FALSE],
     [kind |-> "garbled", code |-> 0, val |-> 0, numeric |-> FALSE]}
    \cup {[kind |-> "token", code |-> c, val |-> ReplyValue(c), numeric |-> TRUE] :
             c \in ReplyCodes}
    \cup {[kind |-> "token", code |-> c, val |-> 0, numeric |-> FALSE] :
             c \in ReplyCodes \ {codes.PC}}

\* msgs.split('|'): at least one part, each blank or not.
MsgLists == UNION {[1..n -> BOOLEAN] : n \in 1..MaxMsgParts}

\* The field a code is stored in, "" for a code of no branch.
FieldOf_Extra(commandID) ==
    CASE commandID = codes.HA -> "hz"
      [] commandID = codes.VA -> "v"
      [] commandID = codes.SD -> "distance"
      [] commandID = codes.PC -> "distance"
      [] commandID = codes.EASTING -> "east"
      [] commandID = codes.NORTHING -> "north"
      [] commandID = codes.ELE -> "elev"
      [] OTHER -> ""

FieldOf(commandID) ==
    CASE commandID = codes.HA -> "hz"
      [] commandID = codes.VA -> "v"
      [] commandID = codes.SD -> "distance"
      [] commandID = codes.EASTING -> "east"
      [] commandID = codes.NORTHING -> "north"
      [] commandID = codes.ELE -> "elev"
      [] OTHER -> ""

\* Angle(float(buf[1]), 'PDEG') for the angles, float(buf[1]) for the rest.
Conv(field, val) == IF field \in {"hz", "v"} THEN pdeg2rad(val) ELSE val

\* zip(msgList, ansList) pairs the reply part with a request part, and the
\* request part is not blank.
Visited == part <= Len(msgList) /\ msgList[part]

Running == part >= 1 /\ ~decDone /\ ~decRaised

\* What the reply held, whether the loop visits the line or not.
Record(l) ==
    /\ tokens' = IF l.kind = "token" /\ l.numeric
                 THEN (l.code :> l.val) @@ tokens ELSE tokens
    /\ garbled' = (garbled \/ l.kind = "garbled")
    /\ badValue' = (badValue \/ (l.kind = "token" /\ ~l.numeric))

\* One line of the reply part being read.  The inner loop decodes it when the
\* outer loop visits the part; int() and float() raise ValueError.
ReadLine(l) ==
    /\ Running
    /\ Record(l)
    /\ IF Visited /\ l.kind # "plain"
       THEN IF l.kind = "garbled" \/ (FieldOf(l.code) # "" /\ ~l.numeric)
            THEN decRaised' = TRUE /\ res' = res
            ELSE /\ decRaised' = decRaised
                 /\ res' = IF FieldOf(l.code) # ""
                           THEN (FieldOf(l.code) :> Conv(FieldOf(l.code), l.val)) @@ res
                           ELSE res
       ELSE UNCHANGED <<decRaised, res>>
    /\ UNCHANGED <<msgList, part, decDone>>
    /\ UNCHANGED nonDecVars

\* The reply goes on with another part.
NextPart ==
    /\ Running
    /\ part < MaxAnsParts
    /\ part' = part + 1
    /\ UNCHANGED <<msgList, res, decRaised, decDone, tokens, garbled, badValue>>
    /\ UNCHANGED nonDecVars

\* The reply is at its end: return res.
ReturnResult ==
    /\ Running
    /\ decDone' = TRUE
    /\ UNCHANGED <<msgList, part, res, decRaised, tokens, garbled, badValue>>
    /\ UNCHANGED nonDecVars

DecInit ==
    /\ Constructed("Trimble5500", [hz |-> gon2rad(50), v |-> gon2rad(80)])
    /\ msgList \in MsgLists
    /\ part = 1
    /\ res = EmptyMeas
    /\ decRaised = FALSE
    /\ decDone = FALSE
    /\ tokens = EmptyMeas
    /\ garbled = FALSE
    /\ badValue = FALSE
    /\ NmeaIdle
    /\ AngIdle
    /\ ConvIdle
    /\ HsIdle
    /\ MpIdle
    /\ AppsIdle

DecNext ==
    \/ \E l \in Lines : ReadLine(l)
    \/ NextPart
    \/ ReturnResult

SpecResult == DecInit /\ [][DecNext]_vars

(***************************************************************************)
(* Properties of Trimble5500.Result                                        *)
(***************************************************************************)
Decoded6 == {codes.HA, codes.VA, codes.SD, codes.EASTING, codes.NORTHING,
             codes.ELE}

\* C9: whatever the parts of the request and of the reply, the dictionary
\* Result returns holds, for every `code=number` line of the reply with code
\* HA, VA, SD, EASTING, NORTHING or ELE, the field hz, v, distance, east,
\* north, elev with the value of that line.
C9_EveryLineDecoded ==
    decDone =>
        /\ (codes.HA \in DOMAIN tokens =>
               Has(res, "hz") /\ res["hz"] = pdeg2rad(tokens[codes.HA]))
        /\ (codes.VA \in DOMAIN tokens =>
               Has(res, "v") /\ res["v"] = pdeg2rad(tokens[codes.VA]))
        /\ (codes.SD \in DOMAIN tokens =>
               Has(res, "distance") /\ res["distance"] = tokens[codes.SD])
        /\ (codes.EASTING \in DOMAIN tokens =>
               Has(res, "east") /\ res["east"] = tokens[codes.EASTING])
        /\ (codes.NORTHING \in DOMAIN tokens =>
               Has(res, "north") /\ res["north"] = tokens[codes.NORTHING])
        /\ (codes.ELE \in DOMAIN tokens =>
               Has(res, "elev") /\ res["elev"] = tokens[codes.ELE])

NoToken == DOMAIN tokens \cap Decoded6 = {} /\ ~badValue

\* C10: the dictionary Result builds holds a field only when the reply held a
\* `code=number` line of the matching code; a reply with no line of a decoded
\* code, and no line with '=' whose code is not an integer, makes Result
\* return the empty dictionary without raising.
C10_FieldsFromTokens ==
    /\ Has(res, "hz") => codes.HA \in DOMAIN tokens
    /\ Has(res, "v") => codes.VA \in DOMAIN tokens
    /\ Has(res, "distance") => codes.SD \in DOMAIN tokens
    /\ Has(res, "east") => codes.EASTING \in DOMAIN tokens
    /\ Has(res, "north") => codes.NORTHING \in DOMAIN tokens
    /\ Has(res, "elev") => codes.ELE \in DOMAIN tokens
    /\ DOMAIN res \subseteq {"hz", "v", "distance", "east", "north", "elev"}
    /\ (NoToken /\ ~garbled) => (~decRaised /\ res = EmptyMeas)

\* Result returned two fields of a reply that held a third, undecoded code.
C10_Witness ==
    /\ decDone
    /\ DOMAIN res = {"hz", "distance"}
    /\ DOMAIN tokens = {codes.HA, codes.SD, codes.PC}

\* Result returned the empty dictionary for a reply of several parts with no
\* line of a decoded code.
C10_WitnessEmpty ==
    /\ decDone /\ part > 1
    /\ NoToken /\ ~garbled /\ codes.PC \in DOMAIN tokens
    /\ res = EmptyMeas

\* C10 as stated: a reply with no line of a decoded code never makes Result
\* raise.
C10_Original ==
    NoToken => (~decRaised /\ res = EmptyMeas)

(***************************************************************************)
(* NmeaGnssUnit.Result                                                     *)
(***************************************************************************)
MaxPayload == 2

\* Bitwise exclusive or of two naturals, the ^ of cksum1 ^= ord(s).
RECURSIVE Xor(_, _)
Xor(a, b) ==
    IF a = 0 THEN b
    ELSE IF b = 0 THEN a
    ELSE 2 * Xor(a \div 2, b \div 2) + ((a + b) % 2)

\* cksum1 after the loop over the characters s (their ord()).
RECURSIVE Cksum1(_)
Cksum1(s) == IF s = <<>> THEN 0 ELSE Xor(Head(s), Cksum1(Tail(s)))

\* hex(n) without its '0x', as hexadecimal digits: no leading zero.
RECURSIVE HexDigits(_)
HexDigits(n) ==
    IF n < 16 THEN <<n>> ELSE Append(HexDigits(n \div 16), n % 16)

\* ord() of the characters of a sentence type.
TagChars(tag) ==
    CASE tag = "GPGGA" -> <<71, 80, 71, 71, 65>>
      [] tag = "GPZDA" -> <<71, 80, 90, 68, 65>>

\* The sentences received: a tag, the quality digit, other characters of the
\* data (',' 'M' 'e'), the two hexadecimal digits after '*' and the
\* hemisphere letters.  Latitude 3907 (39 deg 07 min), longitude 12102,
\* 5 satellites, hdop 2, altitude 646 throughout.
NmeaTags == {"GPGGA", "GPZDA"}

PayloadChars == {44, 77, 101}

Payloads == UNION {[1..n -> PayloadChars] : n \in 0..MaxPayload}

Sentences ==
    [tag : NmeaTags, payload : Payloads, cksum : (0..15) \X (0..15),
     quality : 0..2, latHemi : {"N", "S"}, lonHemi : {"E", "W"}]

\* data[1:], the characters between '$' and '*'.
DataChars(ans) ==
    TagChars(ans.tag) \o <<48 + ans.quality>> \o ans.payload

\* Angle(value, 'NMEA'): DDMM to arcseconds, int() truncating towards zero.
dm2rad(angle) ==
    LET a == IF angle < 0 THEN -angle ELSE angle
        r == (a \div 100) * 3600 + (a % 100) * 60
    IN  IF angle < 0 THEN -r ELSE r

\* ('0x' + cksum).lower() != hex(cksum1).lower(), a comparison of strings.
ChecksumDiffers_Never(cksum, cksum1) == FALSE

ChecksumDiffers(cksum, cksum1) == cksum # HexDigits(cksum1)

\* int(anslist[6]) == 0
NoFix_Never(ans) == FALSE

NoFix(ans) == ans.quality = 0

GgaFields(ans) ==
    ("latitude" :> dm2rad((IF ans.latHemi = "N" THEN 1 ELSE -1) * 3907))
    @@ ("longitude" :> dm2rad((IF ans.lonHemi = "E" THEN 1 ELSE -1) * 12102))
    @@ ("quality" :> ans.quality)
    @@ ("nsat" :> 5)
    @@ ("altitude" :> 646)
    @@ ("hdop" :> 2)
    @@ ("datetime" :> 0)      \* self.date_time, None

NmeaResult(m, ans) ==
    IF ans.tag # m THEN RetNone
    ELSE IF ChecksumDiffers(ans.cksum, Cksum1(DataChars(ans))) THEN RetNone
    ELSE IF m = "GPGGA"
         THEN IF NoFix(ans) THEN RetNone ELSE RetVal(GgaFields(ans))
         ELSE RetVal(EmptyMeas)

\* NmeaGnssUnit.Result(msg, ans)
Result ==
    /\ ~nmeaDone
    /\ nmeaRes' = NmeaResult(nmeaMsg, nmeaAns)
    /\ nmeaDone' = TRUE
    /\ UNCHANGED <<nmeaMsg, nmeaAns>>
    /\ UNCHANGED nonNmeaVars

NmeaInit ==
    /\ Constructed("Trimble5500", [hz |-> gon2rad(50), v |-> gon2rad(80)])
    /\ DecIdle
    /\ nmeaMsg \in NmeaTags
    /\ nmeaAns \in Sentences
    /\ nmeaRes = NoRet
    /\ nmeaDone = FALSE
    /\ AngIdle
    /\ ConvIdle
    /\ HsIdle
    /\ MpIdle
    /\ AppsIdle

NmeaNext == Result

SpecNmea == NmeaInit /\ [][NmeaNext]_vars

\* The transmitted checksum, as an integer.
CksumValue(ans) == ans.cksum[1] * 16 + ans.cksum[2]

\* C11: every GPGGA sentence of the type asked for, whose transmitted
\* checksum equals as an integer the XOR of the characters between '$' and
\* '*', and whose fix quality is not 0, is decoded: Result returns latitude,
\* longitude, quality, satellite count and altitude.
C11_AcceptsValid ==
    (/\ nmeaDone
     /\ nmeaMsg = "GPGGA" /\ nmeaAns.tag = "GPGGA"
     /\ CksumValue(nmeaAns) = Cksum1(DataChars(nmeaAns))
     /\ nmeaAns.quality # 0)
    => /\ ~nmeaRes.isNone
       /\ {"latitude", "longitude", "quality", "nsat", "altitude"}
              \subseteq DOMAIN nmeaRes.val

\* C12: a sentence of another type than asked for, or whose transmitted
\* checksum differs from the XOR of the characters between '$' and '*', or
\* a GPGGA sentence of fix quality 0, makes Result return None.
C12_Rejects ==
    (/\ nmeaDone
     /\ \/ nmeaAns.tag # nmeaMsg
        \/ CksumValue(nmeaAns) # Cksum1(DataChars(nmeaAns))
        \/ (nmeaAns.tag = "GPGGA" /\ nmeaAns.quality = 0))
    => nmeaRes.isNone

\* A GPGGA sentence with a fix, rejected for its checksum alone.
C12_Witness ==
    /\ nmeaDone
    /\ nmeaMsg = "GPGGA" /\ nmeaAns.tag = "GPGGA" /\ nmeaAns.quality = 1
    /\ CksumValue(nmeaAns) # Cksum1(DataChars(nmeaAns))
    /\ nmeaRes.isNone

(***************************************************************************)
(* Angle objects and their arithmetic                                      *)
(***************************************************************************)
MaxObjs == 3

\* normalize_rad(angle, positive); % takes the sign of PI2.
normalize_rad(angle, positive) ==
    LET norm == angle % PI2
    IN  IF ~positive /\ angle < 0 THEN norm - PI2 ELSE norm

\* The values followed: whole quarter turns of at most one turn.
InRange(v) == v % deg2rad(90) = 0 /\ -PI2 <= v /\ v <= PI2

\* Right operands: Angle objects made for the operation, numbers, and
\* operands of other types.
Literals ==
    {[kind |-> "Angle", val |-> deg2rad(180)],
     [kind |-> "Angle", val |-> -deg2rad(90)],
     [kind |-> "int", val |-> 2],
     [kind |-> "int", val |-> 0],
     [kind |-> "float", val |-> 2],
     [kind |-> "bool", val |-> 1],
     [kind |-> "str", val |-> 0],
     [kind |-> "NoneType", val |-> 0]}

\* ... and the Angle the second holder has.
Operands ==
    Literals \cup (IF refB # 0 THEN {[kind |-> "Angle", val |-> heap[refB]]} ELSE {})

\* type(other) is Angle
IsAngle(other) == other.kind = "Angle"

\* type(other) in (int, float)
IsNumber_Bool(other) == other.kind \in {"int", "float", "bool"}

IsNumber(other) == other.kind \in {"int", "float"}

\* An object no name is bound to.
FreeId == CHOOSE o \in 1..MaxObjs : o \notin {refA, refB}

\* The heap with the objects no name was bound to forgotten.
Live == [o \in 1..MaxObjs |-> IF o \in {refA, refB} THEN heap[o] ELSE 0]

\* return Angle(v), the result bound to the holder's name (a = a + b).
Fresh(v) ==
    /\ InRange(v)
    /\ refA' = FreeId
    /\ heap' = [Live EXCEPT ![FreeId] = v]
    /\ aRaised' = ""

\* self._value = v; return self (a += b binds a to the same object).
InPlace(v) ==
    /\ InRange(v)
    /\ refA' = refA
    /\ heap' = [Live EXCEPT ![refA] = v]
    /\ aRaised' = ""

Fail(e) ==
    /\ aRaised' = e
    /\ heap' = Live
    /\ refA' = refA

\* What the holders had before the operation.
Before ==
    /\ refABefore' = refA
    /\ refBBefore' = refB
    /\ valABefore' = heap[refA]
    /\ valBBefore' = IF refB # 0 THEN heap[refB] ELSE 0

\* The operation name on the object of refA, with right operand other.
Operation(name, other) ==
    /\ refA # 0
    /\ aOp' = name
    /\ aOther' = other.kind
    /\ Before
    /\ refB' = refB
    /\ UNCHANGED nonAngVars

Add(other) ==
    /\ Operation("__add__", other)
    /\ IF ~IsAngle(other) THEN Fail("TypeError")
       ELSE Fresh(heap[refA] + other.val)

IAdd(other) ==
    /\ Operation("__iadd__", other)
    /\ IF ~IsAngle(other) THEN Fail("TypeError")
       ELSE InPlace(heap[refA] + other.val)

Sub(other) ==
    /\ Operation("__sub__", other)
    /\ IF ~IsAngle(other) THEN Fail("TypeError")
       ELSE Fresh(heap[refA] - other.val)

ISub(other) ==
    /\ Operation("__isub__", other)
    /\ IF ~IsAngle(other) THEN Fail("TypeError")
       ELSE InPlace(heap[refA] - other.val)

Mul(other) ==
    /\ Operation("__mul__", other)
    /\ IF ~IsNumber(other) THEN Fail("TypeError")
       ELSE Fresh(heap[refA] * other.val)

IMul(other) ==
    /\ Operation("__imul__", other)
    /\ IF ~IsNumber(other) THEN Fail("TypeError")
       ELSE InPlace(heap[refA] * other.val)

TrueDiv(other) ==
    /\ Operation("__truediv__", other)
    /\ IF ~IsNumber(other) THEN Fail("TypeError")
       ELSE IF other.val = 0 THEN Fail("ZeroDivisionError")
       ELSE heap[refA] % other.val = 0 /\ Fresh(heap[refA] \div other.val)

ITrueDiv(other) ==
    /\ Operation("__itruediv__", other)
    /\ IF ~IsNumber(other) THEN Fail("TypeError")
       ELSE IF other.val = 0 THEN Fail("ZeroDivisionError")
       ELSE heap[refA] % other.val = 0 /\ InPlace(heap[refA] \div other.val)

\* a = a.normalized(positive)
Normalized(positive) ==
    /\ Operation("normalized", [kind |-> "bool"])
    /\ Fresh(normalize_rad(heap[refA], positive))

\* a.asunit(unit): a value is returned, nothing is assigned.
Asunit ==
    /\ Operation("asunit", [kind |-> "str"])
    /\ aRaised' = ""
    /\ heap' = Live
    /\ refA' = refA

\* b = a: the second holder gets the object of the first.
Share ==
    /\ refA # 0 /\ refB # refA
    /\ refB' = refA
    /\ aOp' = "share"
    /\ aOther' = ""
    /\ aRaised' = ""
    /\ Before
    /\ heap' = Live
    /\ refA' = refA
    /\ UNCHANGED nonAngVars

\* a = Angle(v)
AngInit ==
    /\ Constructed("Trimble5500", [hz |-> gon2rad(50), v |-> gon2rad(80)])
    /\ DecIdle
    /\ NmeaIdle
    /\ ConvIdle
    /\ HsIdle
    /\ MpIdle
    /\ AppsIdle
    /\ refA = 1
    /\ refB = 0
    /\ \E v \in {deg2rad(90), -deg2rad(90)} :
          heap = [o \in 1..MaxObjs |-> IF o = 1 THEN v ELSE 0]
    /\ refABefore = 0
    /\ refBBefore = 0
    /\ valABefore = 0
    /\ valBBefore = 0
    /\ aOp = ""
    /\ aOther = ""
    /\ aRaised = ""

AngNext ==
    \/ \E other \in Operands : Add(other)
    \/ \E other \in Operands : IAdd(other)
    \/ \E other \in Operands : Sub(other)
    \/ \E other \in Operands : ISub(other)
    \/ \E other \in Operands : Mul(other)
    \/ \E other \in Operands : IMul(other)
    \/ \E other \in Operands : TrueDiv(other)
    \/ \E other \in Operands : ITrueDiv(other)
    \/ \E positive \in BOOLEAN : Normalized(positive)
    \/ Asunit
    \/ Share

SpecAngle == AngInit /\ [][AngNext]_vars

\* C13: no operation changes the value of an Angle object that existed
\* before it: every object a holder had before the last operation has the
\* value it had then.
C13_Immutable ==
    /\ refABefore # 0 => heap[refABefore] = valABefore
    /\ refBBefore # 0 => heap[refBBefore] = valBBefore

AngleOps == {"__add__", "__iadd__", "__sub__", "__isub__"}

NumberOps == {"__mul__", "__imul__", "__truediv__", "__itruediv__"}

\* C14: + - += -= with a right operand that is no Angle, and * / *= /= with
\* a right operand that is no int or float, raise TypeError, and the left
\* operand is the same object with the same value afterwards.
C14_TypeError ==
    (\/ (aOp \in AngleOps /\ aOther # "Angle")
     \/ (aOp \in NumberOps /\ aOther \notin {"int", "float"}))
    => /\ aRaised = "TypeError"
       /\ refA = refABefore
       /\ heap[refA] = valABefore

\* *= with True on an Angle two holders share.
C14_Witness ==
    /\ aOp = "__imul__" /\ aOther = "bool"
    /\ aRaised = "TypeError"
    /\ refB = refA /\ heap[refA] = deg2rad(180)

(***************************************************************************)
(* Angle conversions: normalization, DMS and PDEG                          *)
(***************************************************************************)
MaxSec == 3700
MaxTurns == 2

\* The angles given: every whole arcsecond around zero, past one degree, and
\* the neighbours of whole turns; 359-59-59 and 1000 degrees.
ConvAngles ==
    (-MaxSec .. MaxSec)
    \cup {k * PI2 + d : k \in -MaxTurns .. MaxTurns, d \in {-1, 0, 1}}
    \cup {PI2 - 3661, deg2rad(1000)}

\* rad2dms(angle): the text as its sign and its three numbers; {mi:02d} and
\* {sec:02d} write two digits for numbers below 60.  round() of a whole
\* number of arcseconds is that number.
rad2dms(angle) ==
    LET secs == IF angle < 0 THEN -angle ELSE angle
    IN  [signum |-> IF angle < 0 THEN "-" ELSE "",
         items |-> <<secs \div 3600, (secs \div 60) % 60, secs % 60>>]

\* re.search("^[0-9]{1,3}(-[0-9]{1,2}){0,2}$", dms)
DmsMatches(dms) ==
    /\ dms.signum = ""
    /\ Len(dms.items) \in 1..3
    /\ dms.items[1] \in 0..999
    /\ \A k \in 2..Len(dms.items) : dms.items[k] \in 0..99

\* dms2rad(dms) for a text that matches: a += val / div; div *= 60
RECURSIVE DmsSum(_, _)
DmsSum(items, div) ==
    IF items = <<>> THEN 0
    ELSE Head(items) * (3600 \div div) + DmsSum(Tail(items), div * 60)

dms2rad(dms) == DmsSum(dms.items, 1)

\* Mutant: the sign taken off, the parts split from the absolute value.
rad2pdeg_Trunc(angle) ==
    LET secs == IF angle < 0 THEN -angle ELSE angle
        p == (secs \div 3600) * 10000 + ((secs \div 60) % 60) * 100 + (secs % 60)
    IN  IF angle < 0 THEN -p ELSE p

\* rad2pdeg(angle), times 10000; divmod() rounds towards minus infinity.
rad2pdeg(angle) ==
    LET secs == angle
        mi0 == secs \div 60
        sec == secs % 60
        deg == mi0 \div 60
        mi == mi0 % 60
    IN  deg * 10000 + mi * 100 + sec

\* Angle(v, 'RAD', True, positive)
Normalize(positive) ==
    /\ convStage = 0
    /\ convOp' = "normalize"
    /\ convPos' = positive
    /\ convNorm' = normalize_rad(convIn, positive)
    /\ convStage' = 1
    /\ UNCHANGED <<convIn, convDms, convPdeg, convOut, convRaised>>
    /\ UNCHANGED nonConvVars

\* ... and the result normalized with the same flag.
Renormalize ==
    /\ convStage = 1 /\ convOp = "normalize"
    /\ convOut' = normalize_rad(convNorm, convPos)
    /\ convStage' = 2
    /\ UNCHANGED <<convIn, convOp, convPos, convNorm, convDms, convPdeg, convRaised>>
    /\ UNCHANGED nonConvVars

FormatDms ==
    /\ convStage = 0
    /\ convOp' = "dms"
    /\ convDms' = rad2dms(convIn)
    /\ convStage' = 1
    /\ UNCHANGED <<convIn, convPos, convNorm, convPdeg, convOut, convRaised>>
    /\ UNCHANGED nonConvVars

ParseDms ==
    /\ convStage = 1 /\ convOp = "dms"
    /\ IF DmsMatches(convDms)
       THEN convOut' = dms2rad(convDms) /\ convRaised' = ""
       ELSE convOut' = convOut /\ convRaised' = "ValueError"
    /\ convStage' = 2
    /\ UNCHANGED <<convIn, convOp, convPos, convNorm, convDms, convPdeg>>
    /\ UNCHANGED nonConvVars

FormatPdeg ==
    /\ convStage = 0
    /\ convOp' = "pdeg"
    /\ convPdeg' = rad2pdeg(convIn)
    /\ convStage' = 1
    /\ UNCHANGED <<convIn, convPos, convNorm, convDms, convOut, convRaised>>
    /\ UNCHANGED nonConvVars

ParsePdeg ==
    /\ convStage = 1 /\ convOp = "pdeg"
    /\ convOut' = pdeg2rad(convPdeg)
    /\ convStage' = 2
    /\ UNCHANGED <<convIn, convOp, convPos, convNorm, convDms, convPdeg, convRaised>>
    /\ UNCHANGED nonConvVars

ConvInit ==
    /\ Constructed("Trimble5500", [hz |-> gon2rad(50), v |-> gon2rad(80)])
    /\ DecIdle
    /\ NmeaIdle
    /\ AngIdle
    /\ HsIdle
    /\ MpIdle
    /\ AppsIdle
    /\ convIn \in ConvAngles
    /\ convOp = ""
    /\ convStage = 0
    /\ convPos = FALSE
    /\ convNorm = 0
    /\ convDms = [signum |-> "", items |-> <<>>]
    /\ convPdeg = 0
    /\ convOut = 0
    /\ convRaised = ""

ConvNext ==
    \/ \E positive \in BOOLEAN : Normalize(positive)
    \/ Renormalize
    \/ FormatDms
    \/ ParseDms
    \/ FormatPdeg
    \/ ParsePdeg

SpecConv == ConvInit /\ [][ConvNext]_vars

\* C15: normalization maps every angle into [0, 2 pi) with the positive flag
\* and into the open interval (-2 pi, 2 pi) without it, a negative angle then
\* into (-2 pi, 0); normalizing the result again gives the same value.
C15_Normalized ==
    /\ (convOp = "normalize" /\ convStage >= 1) =>
          IF convPos THEN 0 <= convNorm /\ convNorm < PI2
          ELSE /\ -PI2 < convNorm /\ convNorm < PI2
               /\ convIn < 0 => convNorm < 0
    /\ (convOp = "normalize" /\ convStage = 2) => convOut = convNorm

\* C16: the text rad2dms makes of any angle, a negative one included, is
\* parsed by dms2rad without error and gives the angle back.
C16_DmsRoundTrip ==
    (convOp = "dms" /\ convStage = 2) =>
        convRaised = "" /\ convOut = convIn

\* C17: pdeg2rad(rad2pdeg(a)) = a for every whole number of arcseconds a,
\* negative ones included, the number rad2pdeg makes having two minute digits
\* 00-59 and two second digits 00-59 after the degrees.
C17_PdegRoundTrip ==
    /\ (convOp = "pdeg" /\ convStage >= 1) =>
          /\ (convPdeg % 10000) \div 100 \in 0..59
          /\ convPdeg % 100 \in 0..59
    /\ (convOp = "pdeg" /\ convStage = 2) => convOut = convIn

\* One arcsecond below zero: -1 degree, 59 minutes, 59 seconds.
C17_Witness ==
    /\ convOp = "pdeg" /\ convStage = 2
    /\ convIn = -1 /\ convPdeg = -4041
    /\ convOut = -1

(***************************************************************************)
(* HorizontalSection.run                                                   *)
(***************************************************************************)
MaxIter == 2
MaxCount == 3
StartTry == 20

\* The step and the end of the sweep: two points around the circle.
stepinterval == deg2rad(180)
maxa == PI2

hsParams == <<elev, hzStart, maxiter, tol>>

Abs(n) == IF n < 0 THEN -n ELSE n

\* A counter that stops counting at MaxCount.
Inc(n) == IF n < MaxCount THEN n + 1 ELSE n

\* The state of the transport after one more session operation: a failed
\* transport stays failed, a working one may time out.
CallState(st) == IF st # "OK" THEN {st} ELSE {"OK", "TIMEOUT"}

\* What the instrument measures: zenith 60 degrees at distance 8 or 2 (height
\* 4 or 1), zenith 90 degrees at distance 8 or 0 (height 0), and replies that
\* lack the distance, lack the zenith or carry an error code.
HsReplies ==
    {("hz" :> deg2rad(10)) @@ ("v" :> deg2rad(60)) @@ ("distance" :> 8),
     ("hz" :> deg2rad(10)) @@ ("v" :> deg2rad(60)) @@ ("distance" :> 2),
     ("hz" :> deg2rad(10)) @@ ("v" :> deg2rad(90)) @@ ("distance" :> 8),
     ("hz" :> deg2rad(10)) @@ ("v" :> deg2rad(90)) @@ ("distance" :> 0)}
    \cup {("hz" :> deg2rad(10)) @@ ("v" :> deg2rad(90)),
          ("hz" :> deg2rad(10)) @@ ("distance" :> 8),
          ErrMeas}

\* ts.GetMeasure(): the state of the transport and the measurement after it.
HsGetMeasure(st) ==
    IF st # "OK" THEN {[st |-> st, m |-> ErrMeas]}
    ELSE {[st |-> "TIMEOUT", m |-> ErrMeas]}
         \cup {[st |-> "OK", m |-> r] : r \in HsReplies}

\* ts.GetAngles()
HsGetAngles(st) ==
    IF st # "OK" THEN {[st |-> st, m |-> ErrMeas]}
    ELSE {[st |-> "TIMEOUT", m |-> ErrMeas],
          [st |-> "OK", m |-> ("hz" :> deg2rad(10)) @@ ("v" :> deg2rad(90))],
          [st |-> "OK", m |-> ("hz" :> deg2rad(10))]}

\* Twice the cosine of the zenith angles measured.
Cos2(zenith) ==
    CASE zenith = deg2rad(60) -> 1
      [] zenith = deg2rad(90) -> 0

\* math.cos(p['v'].GetAngle()) * p['distance']
Height(p) == (Cos2(p["v"]) * p["distance"]) \div 2

\* Line 58: the initial measurement.
RunStart ==
    /\ hsPc = "l58"
    /\ \E st \in CallState(hsState) : hsState' = st
    /\ lastOp' = "Measure"
    /\ hsPc' = IF hzStart THEN "l61" ELSE "l66"
    /\ UNCHANGED <<hsParams, startp, nextp, hsI, height0, height, index, act,
                   w, accepted, swept, relHz, nRemeas, nStepRot, hsRet, hsRaised>>
    /\ UNCHANGED nonHsVars

\* Lines 59-65: rotate to the start direction, keeping the zenith read.
RotateToStart ==
    /\ hsPc = "l61"
    /\ \E o \in HsGetAngles(hsState) :
          IF Has(o.m, "v")
          THEN /\ \E st \in CallState(o.st) : hsState' = st
               /\ lastOp' = "Move"
               /\ hsPc' = "l66"
               /\ hsRaised' = hsRaised
          ELSE /\ hsState' = o.st
               /\ lastOp' = "GetAngles"
               /\ hsPc' = "raised"
               /\ hsRaised' = "KeyError"
    /\ UNCHANGED <<hsParams, startp, nextp, hsI, height0, height, index, act,
                   w, accepted, swept, relHz, nRemeas, nStepRot, hsRet>>
    /\ UNCHANGED nonHsVars

\* Lines 66-67: the first read of the start point.
FirstGetMeasure ==
    /\ hsPc = "l66"
    /\ \E o \in HsGetMeasure(hsState) : startp' = o.m /\ hsState' = o.st
    /\ hsI' = 0
    /\ lastOp' = "GetMeasure"
    /\ hsPc' = "l68"
    /\ UNCHANGED <<hsParams, nextp, height0, height, index, act, w, accepted,
                   swept, relHz, nRemeas, nStepRot, hsRet, hsRaised>>
    /\ UNCHANGED nonHsVars

\* Lines 68-71: read again while the distance is missing.
PollStart ==
    /\ hsPc = "l68"
    /\ ~Has(startp, "distance") /\ hsI < StartTry
    /\ hsI' = hsI + 1
    /\ \E o \in HsGetMeasure(hsState) : startp' = o.m /\ hsState' = o.st
    /\ lastOp' = "GetMeasure"
    /\ UNCHANGED <<hsPc, hsParams, nextp, height0, height, index, act, w,
                   accepted, swept, relHz, nRemeas, nStepRot, hsRet, hsRaised>>
    /\ UNCHANGED nonHsVars

\* Lines 72-86: the test of the start point, the height of the section, the
\* red laser.  The counter i is not read after the polling; it is forgotten.
CheckStart ==
    /\ hsPc = "l68"
    /\ ~(~Has(startp, "distance") /\ hsI < StartTry)
    /\ IF hsState # "OK" \/ Has(startp, "errorCode")
       THEN /\ hsRet' = 1
            /\ hsPc' = "returned"
            /\ UNCHANGED <<hsState, height0, act, w, lastOp, hsRaised>>
       ELSE IF elev.isNone /\ (~Has(startp, "v") \/ ~Has(startp, "distance"))
       THEN /\ hsRaised' = "KeyError"
            /\ hsPc' = "raised"
            /\ UNCHANGED <<hsState, height0, act, w, lastOp, hsRet>>
       ELSE /\ height0' = IF elev.isNone THEN Height(startp) ELSE elev.val
            /\ w' = TRUE
            /\ \E st \in CallState(hsState) : hsState' = st
            /\ lastOp' = "SetRedLaser"
            /\ act' = 0
            /\ hsPc' = "l87"
            /\ UNCHANGED <<hsRet, hsRaised>>
    /\ hsI' = 0
    /\ UNCHANGED <<hsParams, startp, nextp, height, index, accepted, swept,
                   relHz, nRemeas, nStepRot>>
    /\ UNCHANGED nonHsVars

\* self.ts.MoveRel(self.stepinterval, Angle(0)) from transport state st.
StepRotation(st) ==
    /\ \E st2 \in CallState(st) : hsState' = st2
    /\ lastOp' = "MoveRel"
    /\ relHz' = stepinterval
    /\ nStepRot' = Inc(nStepRot)

\* Lines 87-92: the distance measurement of the next point.
SweepMeasure ==
    /\ hsPc = "l87"
    /\ act < maxa
    /\ swept' = TRUE
    /\ \E st \in CallState(hsState) :
          IF st # "OK"
          THEN /\ StepRotation("OK")
               /\ hsPc' = "l87"
          ELSE /\ hsState' = st
               /\ lastOp' = "Measure"
               /\ hsPc' = "l95"
               /\ UNCHANGED <<relHz, nStepRot>>
    /\ UNCHANGED <<hsParams, startp, nextp, hsI, height0, height, index, act,
                   w, accepted, nRemeas, hsRet, hsRaised>>
    /\ UNCHANGED nonHsVars

\* Lines 93-107: the first read of the point.
SweepGetMeasure ==
    /\ hsPc = "l95"
    /\ \E o \in HsGetMeasure(hsState) :
          /\ nextp' = o.m
          /\ IF o.st # "OK"
             THEN /\ StepRotation("OK")
                  /\ hsPc' = "l87"
                  /\ UNCHANGED <<height, index>>
             ELSE IF ~Has(o.m, "v") \/ ~Has(o.m, "distance") \/ ~Has(o.m, "hz")
             THEN /\ StepRotation(o.st)
                  /\ hsPc' = "l87"
                  /\ UNCHANGED <<height, index>>
             ELSE /\ hsState' = o.st
                  /\ lastOp' = "GetMeasure"
                  /\ height' = Height(o.m)
                  /\ index' = 0
                  /\ hsPc' = "l108"
                  /\ UNCHANGED <<relHz, nStepRot>>
    /\ nRemeas' = 0
    /\ UNCHANGED <<hsParams, startp, hsI, height0, act, w, accepted, swept,
                   hsRet, hsRaised>>
    /\ UNCHANGED nonHsVars

\* Lines 108-120: one corrective rotation and the distance measurement after
\* it; math.acos and the division before it may raise.
ElevStep ==
    /\ hsPc = "l108"
    /\ Abs(height - height0) > tol
    /\ IF nextp["distance"] = 0
       THEN /\ hsRaised' = "ZeroDivisionError"
            /\ hsPc' = "raised"
            /\ w' = TRUE
            /\ UNCHANGED <<hsState, index, lastOp, relHz>>
       ELSE IF Abs(height0) > nextp["distance"]
       THEN /\ hsRaised' = "ValueError"
            /\ hsPc' = "raised"
            /\ w' = TRUE
            /\ UNCHANGED <<hsState, index, lastOp, relHz>>
       ELSE /\ \E st1 \in CallState(hsState) : \E st2 \in CallState(st1) :
                  IF index + 1 > maxiter \/ st2 # "OK"
                  THEN w' = FALSE /\ hsState' = "OK" /\ hsPc' = "l129"
                  ELSE w' = TRUE /\ hsState' = st2 /\ hsPc' = "l121"
            /\ index' = index + 1
            /\ lastOp' = "Measure"
            /\ relHz' = 0
            /\ hsRaised' = hsRaised
    /\ UNCHANGED <<hsParams, startp, nextp, hsI, height0, height, act, accepted,
                   swept, nRemeas, nStepRot, hsRet>>
    /\ UNCHANGED nonHsVars

\* Line 121: the read after the rotation.
ElevGetMeasure ==
    /\ hsPc = "l121"
    /\ \E o \in HsGetMeasure(hsState) : nextp' = o.m /\ hsState' = o.st
    /\ nRemeas' = Inc(nRemeas)
    /\ lastOp' = "GetMeasure"
    /\ hsPc' = "l122"
    /\ UNCHANGED <<hsParams, startp, hsI, height0, height, index, act, w,
                   accepted, swept, relHz, nStepRot, hsRet, hsRaised>>
    /\ UNCHANGED nonHsVars

\* Lines 122-124: read again while the distance is missing.
ElevPoll ==
    /\ hsPc = "l122"
    /\ ~Has(nextp, "distance")
    /\ \E o \in HsGetMeasure(hsState) : nextp' = o.m /\ hsState' = o.st
    /\ nRemeas' = Inc(nRemeas)
    /\ lastOp' = "GetMeasure"
    /\ UNCHANGED <<hsPc, hsParams, startp, hsI, height0, height, index, act, w,
                   accepted, swept, relHz, nStepRot, hsRet, hsRaised>>
    /\ UNCHANGED nonHsVars

\* Lines 126-128: the height of the new measurement.
ElevCheck ==
    /\ hsPc = "l122"
    /\ Has(nextp, "distance")
    /\ IF ~Has(nextp, "v")
       THEN hsPc' = "l129" /\ height' = height
       ELSE hsPc' = "l108" /\ height' = Height(nextp)
    /\ UNCHANGED <<hsState, hsParams, startp, nextp, hsI, height0, index, act,
                   w, accepted, swept, lastOp, relHz, nRemeas, nStepRot, hsRet,
                   hsRaised>>
    /\ UNCHANGED nonHsVars

\* Lines 129-134: the record of the point, the rotation to the next one.
\* A point taken for a record is read with Coords(); the sum of the two
\* items() views at line 131 raises TypeError before the writer is called.
FinishPoint ==
    /\ \/ hsPc = "l129"
       \/ hsPc = "l108" /\ Abs(height - height0) <= tol
    /\ IF Has(nextp, "distance") /\ w
       THEN /\ accepted' = Append(accepted, [height |-> height,
                                             hasV |-> Has(nextp, "v")])
            /\ \E st \in CallState(hsState) : hsState' = st
            /\ lastOp' = "Coords"
            /\ hsRaised' = "TypeError"
            /\ hsPc' = "raised"
            /\ UNCHANGED <<act, relHz, nStepRot>>
       ELSE /\ StepRotation(hsState)
            /\ act' = act + stepinterval
            /\ hsPc' = "l87"
            /\ UNCHANGED <<accepted, hsRaised>>
    /\ UNCHANGED <<hsParams, startp, nextp, hsI, height0, height, index, w,
                   swept, nRemeas, hsRet>>
    /\ UNCHANGED nonHsVars

\* Lines 135-137: rotate back to the start point.
RotateBack ==
    /\ hsPc = "l87"
    /\ act >= maxa
    /\ IF Has(startp, "hz") /\ Has(startp, "v")
       THEN /\ \E st \in CallState(hsState) : hsState' = st
            /\ lastOp' = "Move"
            /\ hsRet' = 0
            /\ hsPc' = "returned"
            /\ hsRaised' = hsRaised
       ELSE /\ hsRaised' = "KeyError"
            /\ hsPc' = "raised"
            /\ UNCHANGED <<hsState, lastOp, hsRet>>
    /\ UNCHANGED <<hsParams, startp, nextp, hsI, height0, height, index, act,
                   w, accepted, swept, relHz, nRemeas, nStepRot>>
    /\ UNCHANGED nonHsVars

\* HorizontalSection(ts, elev, hz_start, stepinterval, maxa, maxiter, tol)
HsInit ==
    /\ Constructed("LeicaTPS1200", [hz |-> gon2rad(50), v |-> gon2rad(80)])
    /\ DecIdle
    /\ NmeaIdle
    /\ AngIdle
    /\ ConvIdle
    /\ MpIdle
    /\ AppsIdle
    /\ hsPc = "l58"
    /\ hsState = "OK"
    /\ elev \in {[isNone |-> TRUE, val |-> 0], [isNone |-> FALSE, val |-> 4]}
    /\ hzStart \in BOOLEAN
    /\ maxiter \in 1..MaxIter
    /\ tol = 0
    /\ startp = <<>>
    /\ nextp = <<>>
    /\ hsI = 0
    /\ height0 = 0
    /\ height = 0
    /\ index = 0
    /\ act = 0
    /\ w = FALSE
    /\ accepted = <<>>
    /\ swept = FALSE
    /\ lastOp = ""
    /\ relHz = 0
    /\ nRemeas = 0
    /\ nStepRot = 0
    /\ hsRet = -1
    /\ hsRaised = ""

HsNext ==
    \/ RunStart
    \/ RotateToStart
    \/ FirstGetMeasure
    \/ PollStart
    \/ CheckStart
    \/ SweepMeasure
    \/ SweepGetMeasure
    \/ ElevStep
    \/ ElevGetMeasure
    \/ ElevPoll
    \/ ElevCheck
    \/ FinishPoint
    \/ RotateBack

SpecSection == HsInit /\ [][HsNext]_vars

(***************************************************************************)
(* Properties of HorizontalSection.run                                     *)
(***************************************************************************)
\* run() is past its test of the start point.
Checked ==
    /\ hsPc \notin {"idle", "l58", "l61", "l66", "l68"}
    /\ ~(hsPc = "raised" /\ lastOp = "GetAngles")

\* The start point was not measured: an error code (which every failure of
\* the transport gives), no distance or no zenith.
BaselineFailed ==
    \/ Has(startp, "errorCode")
    \/ ~Has(startp, "distance")
    \/ ~Has(startp, "v")

\* C18: when the start point cannot be measured, run() returns 1 and issues
\* no operation of the sweep and writes no record.
C18_FatalBaseline ==
    (Checked /\ BaselineFailed) =>
        /\ hsPc = "returned" /\ hsRet = 1
        /\ ~swept
        /\ accepted = <<>>

\* C19: at one point of the sweep at most maxiter corrective rotations and at
\* most maxiter reads are issued by the elevation loop, and a corrective
\* rotation has hz_rel 0.
C19_BoundedIteration ==
    /\ index <= maxiter
    /\ nRemeas <= maxiter
    /\ hsPc \in {"l121", "l122"} => relHz = 0

\* C20: a point whose measurements are never within the tolerance gets no
\* record, and the run is not aborted at it.
C20_SkipsNonConverging ==
    /\ hsRaised \notin {"ValueError", "ZeroDivisionError"}
    /\ \A k \in 1..Len(accepted) : Abs(accepted[k].height - height0) <= tol

\* The read whose reply is in nextp failed: the transport is not OK or the
\* reply lacks the distance, hz or v.
ReadFailed ==
    \/ hsState # "OK"
    \/ ~Has(nextp, "distance")
    \/ ~Has(nextp, "hz")
    \/ ~Has(nextp, "v")

\* C21: when a read fails at a point of the sweep, the first read or a
\* re-measurement of the elevation loop, the point is abandoned: it is not
\* read again, it is not taken for a record, run() does not raise, and the
\* next thing commanded is the rotation to the next step angle.
C21_AbandonsFailedPoint ==
    [][/\ (hsPc = "l95" /\ hsPc' # "l95") =>
             \/ hsPc' = "l87" /\ lastOp' = "MoveRel" /\ relHz' = stepinterval
             \/ hsPc' = "l108" /\ ~ReadFailed'
       /\ (hsPc = "l122" /\ ReadFailed) =>
             /\ hsPc' # "l122"
             /\ accepted' = accepted
       /\ (hsPc = "l129" /\ ReadFailed) =>
             /\ accepted' = accepted
             /\ hsRaised' = hsRaised
             /\ hsPc' = "l87" /\ lastOp' = "MoveRel" /\ relHz' = stepinterval
      ]_vars

StepCount == (maxa + stepinterval - 1) \div stepinterval

\* C23: no more than ceil(maxa / step) rotations by the step are commanded,
\* and a run that returns 0 has commanded exactly that many.
C23_BoundedSweep ==
    /\ nStepRot <= StepCount
    /\ (hsPc = "returned" /\ hsRet = 0) => nStepRot = StepCount

\* run() is one sequential procedure: a step that can be taken is taken.
SpecSectionLive == SpecSection /\ WF_vars(HsNext)

\* C24: run() ends, whatever the instrument does.
C24_Terminates == <>(hsPc \in {"returned", "raised"})

\* C25: when the sweep is complete run() returns 0, and the last operation it
\* issued is the Move back to the start point.
C25_RotateBack ==
    (act >= maxa /\ hsPc # "l87") =>
        /\ hsPc = "returned" /\ hsRet = 0
        /\ lastOp = "Move"

(***************************************************************************)
(* measuretoprism.py, lines 112-211: the initialisation and the loop of    *)
(* measuring.  One cycle of the loop is one step.                          *)
(***************************************************************************)
\* Angle('0-03-00', 'DMS'): three arcminutes.
limit == 180

\* The n of line 171 up to which a cycle under the limit is passed over.
StableCycles == 3

\* The directions the instrument reads: hz 100" and 280" off the first one
\* (100" and 280" apart from it, 180" from one another), v 200" off.
MpHz == {deg2rad(10), deg2rad(10) + 100, deg2rad(10) + 280}
MpV == {deg2rad(90), deg2rad(90) + 200}
MpDist == {5, 7}

\* ts.GetAngles(): the state of the transport and the reply after it.
MpGetAngles(st) ==
    IF st # "OK" THEN {[st |-> st, m |-> ErrMeas]}
    ELSE {[st |-> "TIMEOUT", m |-> ErrMeas]}
         \cup {[st |-> "OK", m |-> ("hz" :> h) @@ ("v" :> z)] :
                  h \in MpHz, z \in MpV}

\* ts.GetMeasure(): a reply with the distance, or with the angles only.
MpGetMeasure(st) ==
    MpGetAngles(st)
    \cup (IF st # "OK" THEN {}
          ELSE {[st |-> "OK",
                 m |-> ("hz" :> h) @@ ("v" :> z) @@ ("distance" :> d)] :
                    h \in MpHz, z \in MpV, d \in MpDist})

\* Lines 191-211: the distance, the coordinates of the record (they are
\* functions of d, hz and v) and the writer, for the reply m.
RecordStep(m) ==
    LET d == IF Has(m, "distance") THEN m["distance"] ELSE slopeDist
    IN  /\ slopeDist' = d
        /\ IF Has(m, "hz") /\ Has(m, "v")
           THEN /\ nRecord' = 1
                /\ rec' = [hz |-> m["hz"], v |-> m["v"], d |-> d,
                           fresh |-> Has(m, "distance")]
           ELSE /\ nRecord' = 0
                /\ rec' = NoRec

\* What mode 5 keeps, left alone by the other modes.
mode5Vars == <<last_hz, last_v, prev_hz, prev_v, moving, mpN, cycHz, cycV,
               consec, cycTrans>>

\* Lines 112-141: the EDM mode, the first measurement, the lock, the
\* variables of mode 5.
Initialize ==
    /\ mpPc = "l112"
    /\ IF mode > 0
       THEN \E st1 \in CallState(mpState) : \E o \in MpGetMeasure(st1) :
            \E st2 \in (IF mode \in {3, 4, 5} THEN CallState(o.st)
                        ELSE {o.st}) :
               /\ measurement' = o.m
               /\ slopeDist' = IF Has(o.m, "distance") THEN o.m["distance"]
                               ELSE slopeDist
               /\ mpState' = st2
               /\ nMeasure' = 1
               /\ IF mode # 5
                  THEN /\ mpPc' = "loop"
                       /\ UNCHANGED <<mode5Vars, mpRaised>>
                  ELSE IF ~Has(o.m, "hz") \/ ~Has(o.m, "v")
                  THEN /\ mpPc' = "raised"
                       /\ mpRaised' = "KeyError"
                       /\ UNCHANGED mode5Vars
                  ELSE /\ mpPc' = "loop"
                       /\ last_hz' = o.m["hz"]
                       /\ last_v' = o.m["v"]
                       /\ prev_hz' = o.m["hz"]
                       /\ prev_v' = o.m["v"]
                       /\ cycHz' = o.m["hz"]
                       /\ cycV' = o.m["v"]
                       /\ moving' = TRUE
                       /\ mpN' = 0
                       /\ UNCHANGED <<consec, cycTrans, mpRaised>>
       ELSE /\ \E st \in CallState(mpState) : mpState' = st
            /\ mpPc' = "loop"
            /\ UNCHANGED <<measurement, slopeDist, nMeasure, mode5Vars,
                           mpRaised>>
    /\ UNCHANGED <<mode, nRecord, rec>>
    /\ UNCHANGED nonMpVars

\* Line 144 taken as a loop that clears the interface state and goes on.
LoopExit_Resumes ==
    /\ mpPc = "loop"
    /\ mpState # "OK"
    /\ mpState' = "OK"
    /\ mpPc' = "loop"
    /\ UNCHANGED <<mode, slopeDist, measurement, mode5Vars, mpRaised,
                   nMeasure, nRecord, rec>>
    /\ UNCHANGED nonMpVars

\* Line 144: the loop ends when the transport is not OK.
LoopExit ==
    /\ mpPc = "loop"
    /\ mpState # "OK"
    /\ mpPc' = "exited"
    /\ UNCHANGED <<mode, mpState, slopeDist, measurement, mode5Vars, mpRaised,
                   nMeasure, nRecord, rec>>
    /\ UNCHANGED nonMpVars

\* A cycle of mode 0 to 4 that ends with the reply o of its read, after
\* measures calls of Measure.
PlainCycle(o, measures) ==
    /\ mpState' = o.st
    /\ measurement' = o.m
    /\ nMeasure' = measures
    /\ RecordStep(o.m)
    /\ UNCHANGED <<mpPc, mode, mode5Vars, mpRaised>>
    /\ UNCHANGED nonMpVars

\* Lines 145-147: Measure, GetMeasure.
Mode0Cycle ==
    /\ mpPc = "loop" /\ mpState = "OK" /\ mode = 0
    /\ \E st \in CallState(mpState) : \E o \in MpGetMeasure(st) :
          PlainCycle(o, 1)

\* Lines 148-151: MoveRel with ATR, Measure, GetMeasure.
Mode1Cycle ==
    /\ mpPc = "loop" /\ mpState = "OK" /\ mode = 1
    /\ \E st1 \in CallState(mpState) : \E st2 \in CallState(st1) :
       \E o \in MpGetMeasure(st2) : PlainCycle(o, 1)

\* Lines 152-155: MoveRel with ATR, GetAngles.
Mode2Cycle ==
    /\ mpPc = "loop" /\ mpState = "OK" /\ mode = 2
    /\ \E st \in CallState(mpState) : \E o \in MpGetAngles(st) :
          PlainCycle(o, 0)

\* Lines 156-157: GetAngles.
Mode3Cycle ==
    /\ mpPc = "loop" /\ mpState = "OK" /\ mode = 3
    /\ \E o \in MpGetAngles(mpState) : PlainCycle(o, 0)

\* Lines 158-161: Measure, GetMeasure.
Mode4Cycle ==
    /\ mpPc = "loop" /\ mpState = "OK" /\ mode = 4
    /\ \E st \in CallState(mpState) : \E o \in MpGetMeasure(st) :
          PlainCycle(o, 1)

\* The tests of lines 167-168 and of lines 186-187 for the angles read.
UnderLimit(m) ==
    /\ Abs(prev_hz - m["hz"]) < limit
    /\ Abs(prev_v - m["v"]) < limit

Moved_Above(m) ==
    \/ Abs(last_hz - m["hz"]) > limit
    \/ Abs(last_v - m["v"]) > limit

Moved(m) ==
    \/ Abs(last_hz - m["hz"]) >= limit
    \/ Abs(last_v - m["v"]) >= limit

\* A cycle of mode 5 that passes over the record step (continue).
Continue(o) ==
    /\ mpState' = o.st
    /\ measurement' = o.m
    /\ cycHz' = o.m["hz"]
    /\ cycV' = o.m["v"]
    /\ nMeasure' = 0
    /\ nRecord' = 0
    /\ rec' = NoRec
    /\ UNCHANGED <<mpPc, mode, slopeDist, mpRaised>>
    /\ UNCHANGED nonMpVars

\* Lines 164-167 or 186: the reply of GetAngles holds no angles.
Mode5NoAngles ==
    /\ mpPc = "loop" /\ mpState = "OK" /\ mode = 5
    /\ \E o \in MpGetAngles(mpState) :
          /\ ~Has(o.m, "hz")
          /\ mpState' = o.st
          /\ measurement' = o.m
    /\ mpPc' = "raised"
    /\ mpRaised' = "KeyError"
    /\ nMeasure' = 0
    /\ nRecord' = 0
    /\ rec' = NoRec
    /\ cycTrans' = ""
    /\ UNCHANGED <<mode, slopeDist, last_hz, last_v, prev_hz, prev_v, moving,
                   mpN, cycHz, cycV, consec>>
    /\ UNCHANGED nonMpVars

\* Lines 166-172: moving, the angles under the limit, n not above 3.
Mode5Stable ==
    /\ mpPc = "loop" /\ mpState = "OK" /\ mode = 5 /\ moving
    /\ \E o \in MpGetAngles(mpState) :
          /\ Has(o.m, "hz")
          /\ UnderLimit(o.m)
          /\ mpN + 1 <= StableCycles
          /\ Continue(o)
    /\ mpN' = mpN + 1
    /\ consec' = consec + 1
    /\ cycTrans' = ""
    /\ UNCHANGED <<last_hz, last_v, prev_hz, prev_v, moving>>

\* Lines 166-180 and 191-211: moving, the angles under the limit, n above 3:
\* the distance measurement, the point stored, the record.
Mode5Stop ==
    /\ mpPc = "loop" /\ mpState = "OK" /\ mode = 5 /\ moving
    /\ \E o \in MpGetAngles(mpState) :
          /\ Has(o.m, "hz")
          /\ UnderLimit(o.m)
          /\ mpN + 1 > StableCycles
          /\ \E st \in CallState(o.st) : \E o2 \in MpGetMeasure(st) :
                /\ mpState' = o2.st
                /\ measurement' = o2.m
                /\ IF Has(o2.m, "hz")
                   THEN /\ last_hz' = o2.m["hz"]
                        /\ last_v' = o2.m["v"]
                        /\ prev_hz' = o2.m["hz"]
                        /\ prev_v' = o2.m["v"]
                        /\ cycHz' = o2.m["hz"]
                        /\ cycV' = o2.m["v"]
                        /\ mpN' = 0
                        /\ RecordStep(o2.m)
                        /\ UNCHANGED <<mpPc, mpRaised>>
                   ELSE /\ mpPc' = "raised"
                        /\ mpRaised' = "KeyError"
                        /\ mpN' = mpN + 1
                        /\ nRecord' = 0
                        /\ rec' = NoRec
                        /\ UNCHANGED <<last_hz, last_v, prev_hz, prev_v, cycHz,
                                       cycV, slopeDist>>
    /\ moving' = FALSE
    /\ consec' = consec + 1
    /\ cycTrans' = "stop"
    /\ nMeasure' = 1
    /\ mode' = mode
    /\ UNCHANGED nonMpVars

\* Lines 181-184: moving, an angle off by the limit or more.
Mode5Unstable ==
    /\ mpPc = "loop" /\ mpState = "OK" /\ mode = 5 /\ moving
    /\ \E o \in MpGetAngles(mpState) :
          /\ Has(o.m, "hz")
          /\ ~UnderLimit(o.m)
          /\ prev_hz' = o.m["hz"]
          /\ prev_v' = o.m["v"]
          /\ Continue(o)
    /\ consec' = 0
    /\ cycTrans' = ""
    /\ UNCHANGED <<last_hz, last_v, moving, mpN>>

\* Lines 185-189: stopped.
Mode5Stopped ==
    /\ mpPc = "loop" /\ mpState = "OK" /\ mode = 5 /\ ~moving
    /\ \E o \in MpGetAngles(mpState) :
          /\ Has(o.m, "hz")
          /\ moving' = Moved(o.m)
          /\ cycTrans' = IF Moved(o.m) THEN "move" ELSE ""
          /\ Continue(o)
    /\ consec' = 0
    /\ UNCHANGED <<last_hz, last_v, prev_hz, prev_v, mpN>>

\* The program started in one of the six modes.
MpInit ==
    /\ Constructed("LeicaTPS1200", [hz |-> gon2rad(50), v |-> gon2rad(80)])
    /\ DecIdle
    /\ NmeaIdle
    /\ AngIdle
    /\ ConvIdle
    /\ HsIdle
    /\ AppsIdle
    /\ mpPc = "l112"
    /\ mode \in 0..5
    /\ mpState = "OK"
    /\ slopeDist = 0
    /\ measurement = <<>>
    /\ last_hz = 0
    /\ last_v = 0
    /\ prev_hz = 0
    /\ prev_v = 0
    /\ moving = FALSE
    /\ mpN = 0
    /\ mpRaised = ""
    /\ cycHz = 0
    /\ cycV = 0
    /\ consec = 0
    /\ cycTrans = ""
    /\ nMeasure = 0
    /\ nRecord = 0
    /\ rec = NoRec

MpNext ==
    \/ Initialize
    \/ LoopExit
    \/ Mode0Cycle
    \/ Mode1Cycle
    \/ Mode2Cycle
    \/ Mode3Cycle
    \/ Mode4Cycle
    \/ Mode5NoAngles
    \/ Mode5Stable
    \/ Mode5Stop
    \/ Mode5Unstable
    \/ Mode5Stopped

SpecTracking == MpInit /\ [][MpNext]_vars

(***************************************************************************)
(* Properties of mode 5 and of the record step                             *)
(***************************************************************************)
\* Mode 5 is between two cycles, in the state moving.
Mode5Moving == mode = 5 /\ mpPc = "loop" /\ moving

\* C26: while moving, the third cycle in a row with both angles under the
\* limit makes the detector stop; the cycle that stops it issues one Measure,
\* stores the angles of that measurement as the point stored last and hands
\* one record to the writer.
C26_StopsAfterThree ==
    /\ Mode5Moving => consec < 3
    /\ cycTrans = "stop" =>
          /\ consec = 3
          /\ mpRaised = ""
          /\ nMeasure = 1
          /\ nRecord = 1
          /\ last_hz = measurement["hz"] /\ last_v = measurement["v"]

\* C27: the detector stops only in a cycle that ends three cycles in a row
\* under the limit; cycles under the limit with a movement between them do
\* not add up.
C27_Consecutive == cycTrans = "stop" => consec >= 3

\* C28: between two cycles of the state moving the angles kept for the
\* comparison are those the cycle before read.
C28_PreviousCycle == Mode5Moving => (prev_hz = cycHz /\ prev_v = cycV)

\* The last cycle of mode 5 began and ended in the state stopped.
StayedStopped ==
    /\ mode = 5 /\ mpPc \in {"loop", "exited"}
    /\ ~moving /\ cycTrans = ""

\* The angles read last against the point stored last.
Exceeds ==
    \/ Abs(last_hz - measurement["hz"]) > limit
    \/ Abs(last_v - measurement["v"]) > limit

Reaches ==
    \/ Abs(last_hz - measurement["hz"]) >= limit
    \/ Abs(last_v - measurement["v"]) >= limit

C30_FreshDistance == nRecord = 1 => rec.fresh
\* C36: in every mode 0..5 a cycle of the tracking loop begins only while
\* the interface state is OK: when the state is not OK at the loop test the
\* loop ends, and from then on no operation is issued, no record is written
\* and nothing of the tracking state changes.
C36_CycleOnlyWhileOK ==
    [][((mpPc = "loop" /\ mpState # "OK") \/ mpPc = "exited")
        => /\ mpPc' = "exited"
           /\ UNCHANGED <<mode, mpState, slopeDist, measurement, mode5Vars,
                          nMeasure, nRecord, rec>>]_vars

\* The loop of mode 5 has ended on an interface state that is not OK, after
\* a cycle that measured.
C36_Witness ==
    /\ mpPc = "exited"
    /\ mpState # "OK"
    /\ mode = 5
    /\ nMeasure > 0


\* C38: the corrected zenith is asked for only with a distance that is not 0
\* and not shorter than |h0|; a shorter distance does not end the run with
\* the error of the arc cosine or of the division.
C38_ZenithDomain ==
    /\ hsPc = "l121" =>
          (nextp["distance"] # 0 /\ Abs(height0) <= nextp["distance"])
    /\ hsRaised # "ValueError"
    /\ hsRaised # "ZeroDivisionError"

(***************************************************************************)
(* VideoIface (src/pyapi/videoiface.py)                                    *)
(***************************************************************************)
MaxFrames == 3
MaxReads == 4

\* What an interface can be constructed on: a camera index (live tells
\* whether the camera gives a frame when first queried), a path (isfile
\* tells whether it names an existing regular file, frames what it holds)
\* or a value that is neither an int nor a str.
ViSources ==
    {[type |-> "int", isfile |-> FALSE, live |-> b, frames |-> 0] :
        b \in BOOLEAN}
    \cup {[type |-> "str", isfile |-> TRUE, live |-> FALSE, frames |-> k] :
        k \in 0..MaxFrames}
    \cup {[type |-> "str", isfile |-> FALSE, live |-> FALSE, frames |-> 0],
          [type |-> "other", isfile |-> FALSE, live |-> FALSE, frames |-> 0]}

\* Lines 33-49: the state the constructor leaves for the source s. The
\* state of the base class starts as OK.
ViConstructedState(s) ==
    IF s.type = "int"
    THEN IF ~s.live THEN "SOURCE" ELSE "OK"
    ELSE IF s.type = "str"
         THEN IF s.isfile THEN "OK" ELSE "FILE"
         ELSE "SOURCE"

\* Lines 34-43: self.video is a capture only for a camera index and for an
\* existing file.
ViHasCapture(s) == s.type = "int" \/ (s.type = "str" /\ s.isfile)

\* Lines 24-49: the interface after construction on s. The camera is
\* queried once by line 36.
VideoIface(s) ==
    /\ viSource = s
    /\ viState = ViConstructedState(s)
    /\ viFrames = s.frames
    /\ viOp = ""
    /\ viRet = ""
    /\ viRead = FALSE
    /\ viWasReset = FALSE
    /\ viReads = IF s.type = "int" THEN 1 ELSE 0

\* cv2.cv.QueryFrame(self.video) of line 67: what it can give and what is
\* left in the source. A camera gives a frame or nothing, a file its next
\* frame or nothing at its end; without a capture the call gives nothing
\* or raises.
QueryFrame ==
    IF ~ViHasCapture(viSource)
    THEN {[img |-> "None", left |-> viFrames],
          [img |-> "TypeError", left |-> viFrames]}
    ELSE IF viSource.type = "int"
         THEN {[img |-> "img", left |-> viFrames],
               [img |-> "None", left |-> viFrames]}
         ELSE IF viFrames > 0
              THEN {[img |-> "img", left |-> viFrames - 1]}
              ELSE {[img |-> "None", left |-> viFrames]}

\* Lines 60-71 taken as reading the source whatever the state is.
GetImage_ReadsAnyway ==
    /\ viReads < MaxReads
    /\ \E q \in QueryFrame :
          /\ viRet' = q.img
          /\ viFrames' = q.left
          /\ viState' = IF q.img = "None" THEN "EOF" ELSE viState
    /\ viRead' = TRUE
    /\ viReads' = viReads + 1
    /\ viOp' = "GetImage"
    /\ UNCHANGED <<viSource, viWasReset>>
    /\ UNCHANGED nonViVars

\* Lines 60-71: GetImage.
GetImage ==
    /\ IF viState = "OK"
       THEN /\ viReads < MaxReads
            /\ \E q \in QueryFrame :
                  /\ viRet' = q.img
                  /\ viFrames' = q.left
                  /\ viState' = IF q.img = "None" THEN "EOF" ELSE viState
            /\ viRead' = TRUE
            /\ viReads' = viReads + 1
       ELSE /\ viRet' = "None"
            /\ viRead' = FALSE
            /\ UNCHANGED <<viState, viFrames, viReads>>
    /\ viOp' = "GetImage"
    /\ UNCHANGED <<viSource, viWasReset>>
    /\ UNCHANGED nonViVars

\* The caller sets the state of the interface to OK after an error.
ViResetState ==
    /\ viState # "OK"
    /\ viState' = "OK"
    /\ viWasReset' = TRUE
    /\ viOp' = "reset"
    /\ UNCHANGED <<viSource, viFrames, viRet, viRead, viReads>>
    /\ UNCHANGED nonViVars

ViInit ==
    /\ \E s \in ViSources : VideoIface(s)
    /\ Constructed("LeicaTPS1200", [hz |-> gon2rad(50), v |-> gon2rad(80)])
    /\ DecIdle
    /\ NmeaIdle
    /\ AngIdle
    /\ ConvIdle
    /\ HsIdle
    /\ MpIdle
    /\ CrIdle
    /\ CxIdle

ViNext ==
    \/ GetImage
    \/ ViResetState

SpecVideo == ViInit /\ [][ViNext]_vars

\* C39: a GetImage on a state that is not OK returns None, reads nothing
\* and leaves the state; a GetImage on the state OK reads the source and a
\* read that finds no frame leaves the state EOF; the state changes from an
\* error to OK only by the reset of the caller; and until the caller resets
\* the state, an interface constructed on a camera that gives no frame or
\* on a source of an unsupported type is in the state SOURCE, one
\* constructed on a path that names no file in the state FILE.
C39_VideoStates ==
    /\ [](~viWasReset =>
            /\ ((viSource.type = "int" /\ ~viSource.live)
                    => viState = "SOURCE")
            /\ (viSource.type = "other" => viState = "SOURCE")
            /\ ((viSource.type = "str" /\ ~viSource.isfile)
                    => viState = "FILE"))
    /\ [][/\ (viOp' = "GetImage" /\ viState # "OK")
               => /\ viRet' = "None"
                  /\ ~viRead'
                  /\ UNCHANGED <<viState, viFrames, viReads>>
          /\ (viOp' = "GetImage" /\ viState = "OK")
               => /\ viRead'
                  /\ viReads' = viReads + 1
                  /\ (viRet' = "None" => viState' = "EOF")
          /\ (viState # "OK" /\ viState' # viState)
               => (viOp' = "reset" /\ viState' = "OK")]_vars

\* A file has run out of frames, the state is EOF and a further GetImage
\* has returned None without a read.
C39_Witness ==
    /\ viSource.type = "str"
    /\ viSource.isfile
    /\ viState = "EOF"
    /\ viOp = "GetImage"
    /\ viRet = "None"
    /\ ~viRead
    /\ viReads > 1

(***************************************************************************)
(* ConfReader.Check (src/pyapi/confreader.py)                              *)
(***************************************************************************)
MaxVal == 2

\* A value of a configuration: its Python type and what it holds.
CrVal(t, x) == [t |-> t, x |-> x]

\* The values a loaded JSON file gives: numbers, texts (unicode), lists.
CrJsonValues ==
    {CrVal("int", k) : k \in 1..MaxVal}
    \cup {CrVal("float", 1), CrVal("unicode", 1), CrVal("list", 1)}

\* The defaults a definition can declare.
CrDefaults == {CrVal("int", k) : k \in 1..MaxVal} \cup {CrVal("str", 1)}

\* Lines 79-113: the types a definition can declare.
CrTypes == {"int", "float", "list", "file", "str"}

\* A dictionary with the key k only when given is TRUE.
CrOpt(given, k, x) == IF given THEN (k :> x) ELSE <<>>

\* Lines 79-113: the definitions of a parameter: required, and optionally
\* default, type and set.
CrPardefs ==
    {("required" :> r) @@ CrOpt(hd, "default", d) @@ CrOpt(ht, "type", t)
        @@ CrOpt(hs, "set", {CrVal("int", 1), CrVal("str", 1)}) :
        r \in BOOLEAN, hd \in BOOLEAN, d \in CrDefaults, ht \in BOOLEAN,
        t \in CrTypes, hs \in BOOLEAN}

\* The definitions without type and set.
CrPlainPardefs ==
    {("required" :> r) @@ CrOpt(hd, "default", CrVal("int", 1)) :
        r \in BOOLEAN, hd \in BOOLEAN}

\* The orders a dictionary with the keys S can be iterated in.
Orders(S) ==
    {q \in [1..Cardinality(S) -> S] :
        \A j, k \in 1..Cardinality(S) : j # k => q[j] # q[k]}

\* The == of Python between two values: numbers by value, texts by value.
PyEq(a, b) ==
    /\ a.x = b.x
    /\ \/ a.t = b.t
       \/ {a.t, b.t} \subseteq {"int", "float"}
       \/ {a.t, b.t} \subseteq {"str", "unicode"}

\* Line 71: self.json[par] in pardef['set'].
InSet(val, st) == \E e \in st : PyEq(val, e)

RECURSIVE Loop1_NoDefaults(_, _)
\* Lines 39-44 taken without the assignment of line 44.
Loop1_NoDefaults(ord, js) ==
    IF ord = <<>> THEN [ok |-> TRUE, json |-> js]
    ELSE LET par == Head(ord)
         IN  IF crPars[par]["required"] /\ ~Has(js, par)
             THEN [ok |-> FALSE, json |-> js]
             ELSE Loop1_NoDefaults(Tail(ord), js)

RECURSIVE Loop1(_, _)
\* Lines 39-44: the loop over self.pars in the order ord, on the
\* configuration js: whether it passed and the configuration it leaves.
Loop1(ord, js) ==
    IF ord = <<>> THEN [ok |-> TRUE, json |-> js]
    ELSE LET par == Head(ord)
         IN  IF crPars[par]["required"] /\ ~Has(js, par)
             THEN [ok |-> FALSE, json |-> js]
             ELSE Loop1(Tail(ord),
                        IF Has(crPars[par], "default") /\ ~Has(js, par)
                        THEN js @@ (par :> crPars[par]["default"])
                        ELSE js)

\* Lines 64-66: the test of the type 'file' on the value val: "ok",
\* "False" or "TypeError". exists tells whether a text names a file;
\* os.path.isfile of a value that is not a text raises or gives False
\* (nonPath).
FileTest(val, exists, nonPath) ==
    IF val.t = "str" THEN "ok"
    ELSE IF val.t = "unicode" THEN (IF exists THEN "ok" ELSE "False")
         ELSE nonPath

\* Lines 51-68: the test of the declared type.
TypeTest(pardef, val, exists, nonPath) ==
    IF pardef["type"] = "int" /\ val.t # "int" THEN "False"
    ELSE IF pardef["type"] = "float" /\ val.t \notin {"int", "float"}
         THEN "False"
    ELSE IF pardef["type"] = "list" /\ val.t # "list" THEN "False"
    ELSE IF pardef["type"] = "file" THEN FileTest(val, exists, nonPath)
    ELSE "ok"

\* Lines 50-73: the tests of one parameter of the configuration. The test
\* of the set (lines 70-73) is inside the branch of line 51.
ParTest(pardef, val, exists, nonPath) ==
    IF Has(pardef, "type")
    THEN LET tt == TypeTest(pardef, val, exists, nonPath)
         IN  IF tt # "ok" THEN tt
             ELSE IF Has(pardef, "set") /\ ~InSet(val, pardef["set"])
                  THEN "False"
                  ELSE "ok"
    ELSE "ok"

RECURSIVE Loop2(_, _, _, _)
\* Lines 45-76: the loop over self.json in the order ord: what Check
\* returns, or the exception it ends with.
Loop2(ord, js, exists, nonPath) ==
    IF ord = <<>> THEN "True"
    ELSE LET par == Head(ord)
         IN  IF ~Has(crPars, par) THEN Loop2(Tail(ord), js, exists, nonPath)
             ELSE LET t == ParTest(crPars[par], js[par], exists, nonPath)
                  IN  IF t # "ok" THEN t
                      ELSE Loop2(Tail(ord), js, exists, nonPath)

\* Lines 32-76: Check.
Check ==
    /\ crPc = "loaded"
    /\ \E ord1 \in Orders(DOMAIN crPars) :
          LET r1 == Loop1(ord1, crJson)
          IN  /\ crJson' = r1.json
              /\ IF ~r1.ok THEN crRet' = "False"
                 ELSE \E ord2 \in Orders(DOMAIN r1.json),
                         exists \in BOOLEAN,
                         nonPath \in {"False", "TypeError"} :
                        crRet' = Loop2(ord2, r1.json, exists, nonPath)
    /\ crPc' = "checked"
    /\ UNCHANGED <<crPars, crJson0>>
    /\ UNCHANGED nonCrVars

\* A reader with definitions for the parameter a, and for b or not, that
\* has loaded a configuration.
CrInit ==
    /\ \E da \in CrPardefs, hb \in BOOLEAN, db \in CrPlainPardefs :
          crPars = ("a" :> da) @@ CrOpt(hb, "b", db)
    /\ \E ha \in BOOLEAN, va \in CrJsonValues, hb \in BOOLEAN :
          crJson0 = CrOpt(ha, "a", va) @@ CrOpt(hb, "b", CrVal("int", 1))
    /\ crJson = crJson0
    /\ crRet = ""
    /\ crPc = "loaded"
    /\ Constructed("LeicaTPS1200", [hz |-> gon2rad(50), v |-> gon2rad(80)])
    /\ DecIdle
    /\ NmeaIdle
    /\ AngIdle
    /\ ConvIdle
    /\ HsIdle
    /\ MpIdle
    /\ ViIdle
    /\ CxIdle

CrNext == Check

SpecCheck == CrInit /\ [][CrNext]_vars

\* The parameters of the loaded configuration whose definition declares a
\* set that does not hold their value.
OutsideSet ==
    {par \in DOMAIN crJson0 \cap DOMAIN crPars :
        Has(crPars[par], "set") /\ ~InSet(crJson0[par], crPars[par]["set"])}

\* C33: Check does not return True for a configuration that holds, for a
\* parameter whose definition declares a set, a value outside the set,
\* whether the definition declares a type or not.
C33_SetValidated ==
    (crPc = "checked" /\ OutsideSet # {}) => crRet # "True"

\* C34: when Check has returned True every required parameter was in the
\* configuration and every parameter with a default that was absent holds
\* its default; when a required parameter was absent Check has returned
\* False.
C34_DefaultsAndRequired ==
    crPc = "checked" =>
        /\ crRet = "True" =>
              \A par \in DOMAIN crPars :
                  /\ crPars[par]["required"] => Has(crJson0, par)
                  /\ (Has(crPars[par], "default") /\ ~Has(crJson0, par))
                        => /\ Has(crJson, par)
                           /\ crJson[par] = crPars[par]["default"]
        /\ (\E par \in DOMAIN crPars :
                crPars[par]["required"] /\ ~Has(crJson0, par))
              => crRet = "False"

\* Check has returned True for a configuration with a required parameter
\* and without a parameter that has a default.
C34_Witness ==
    /\ crPc = "checked"
    /\ crRet = "True"
    /\ \E par \in DOMAIN crPars : crPars[par]["required"]
    /\ \E par \in DOMAIN crPars :
          Has(crPars[par], "default") /\ ~Has(crJson0, par)

(***************************************************************************)
(* measuretoprism.py under an interrupt signal                             *)
(* (src/pyapps/measuretoprism.py, lines 52-55 and 110-211)                 *)
(***************************************************************************)
\* Lines 116-136 and 139: the instrument operations of the initialization,
\* one name for each exchange with the instrument. MoveRel reads the
\* angles and moves (totalstation.py, lines 438-450).
InitOps(md) ==
    IF md = 0 THEN <<"SetEDMMode">>
    ELSE <<"SetEDMMode", "SetLock", "SetATR", "MoveRel.GetAngles",
           "MoveRel.Move", "Measure", "GetMeasure">>
         \o (IF md \in {3, 4, 5} THEN <<"SetLock", "LockIn">> ELSE <<>>)

\* Lines 145-189: the instrument operations one cycle can issue in the
\* mode md.
CycleOps(md) ==
    CASE md \in {0, 4} -> {<<"Measure", "GetMeasure">>}
      [] md = 1 -> {<<"MoveRel.GetAngles", "MoveRel.Move", "Measure",
                      "GetMeasure">>}
      [] md = 2 -> {<<"MoveRel.GetAngles", "MoveRel.Move", "GetAngles">>}
      [] md = 3 -> {<<"GetAngles">>}
      [] md = 5 -> {<<"GetAngles">>, <<"GetAngles", "Measure", "GetMeasure">>}

\* Where the program goes when the operations of a phase are done: the
\* initialization of mode 0 goes on to the try statement of lines 138-141,
\* everything else to the test of line 144.
AfterPhase(ph, md) == IF ph = "init" /\ md = 0 THEN "try" ELSE "loop"

\* Lines 110-116: the handler is registered and the initialization begins.
CxBegin ==
    /\ cxPc = "l110"
    /\ cxPc' = "init"
    /\ cxOps' = InitOps(cxMode)
    /\ UNCHANGED <<cxMode, cxInflight, cxState, cxExit, cxAbandoned, cxAt,
                   cxSwallowed, cxIssuedAfter, cxCycles>>
    /\ UNCHANGED nonCxVars

\* The program sends the request of its next operation.
CxSend ==
    /\ cxPc \in {"init", "try", "cycle"}
    /\ cxInflight = ""
    /\ cxOps # <<>>
    /\ cxInflight' = Head(cxOps)
    /\ cxOps' = Tail(cxOps)
    /\ cxIssuedAfter' = IF cxSwallowed THEN cxIssuedAfter + 1
                        ELSE cxIssuedAfter
    /\ UNCHANGED <<cxPc, cxMode, cxState, cxExit, cxAbandoned, cxAt,
                   cxSwallowed, cxCycles>>
    /\ UNCHANGED nonCxVars

\* The reply of the operation in flight arrives, or its wait times out.
\* MoveRel does not move when its reading of the angles failed; after the
\* last operation of a cycle come the statements of lines 191-211.
CxReply ==
    /\ cxInflight # ""
    /\ \E st \in CallState(cxState), moves \in BOOLEAN :
          LET rest == IF cxInflight = "MoveRel.GetAngles" /\ ~moves
                      THEN Tail(cxOps) ELSE cxOps
          IN  /\ cxInflight = "MoveRel.GetAngles" \/ moves
              /\ cxState' = st
              /\ cxOps' = rest
              /\ cxPc' = IF rest = <<>> THEN AfterPhase(cxPc, cxMode)
                         ELSE cxPc
    /\ cxInflight' = ""
    /\ UNCHANGED <<cxMode, cxExit, cxAbandoned, cxAt, cxSwallowed,
                   cxIssuedAfter, cxCycles>>
    /\ UNCHANGED nonCxVars

\* Line 139: the try statement issues SetATR(0).
CxTry ==
    /\ cxPc = "try"
    /\ cxInflight = ""
    /\ cxOps = <<>>
    /\ cxOps' = <<"SetATR">>
    /\ UNCHANGED <<cxPc, cxMode, cxInflight, cxState, cxExit, cxAbandoned,
                   cxAt, cxSwallowed, cxIssuedAfter, cxCycles>>
    /\ UNCHANGED nonCxVars

\* Line 144: the test of the loop.
CxLoopTest ==
    /\ cxPc = "loop"
    /\ IF cxState = "OK"
       THEN /\ cxCycles < MaxCount
            /\ \E ops \in CycleOps(cxMode) : cxOps' = ops
            /\ cxPc' = "cycle"
            /\ cxCycles' = cxCycles + 1
            /\ UNCHANGED <<cxExit, cxAt>>
       ELSE /\ cxPc' = "exited"
            /\ cxExit' = "state"
            /\ cxAt' = "loop"
            /\ UNCHANGED <<cxOps, cxCycles>>
    /\ UNCHANGED <<cxMode, cxInflight, cxState, cxAbandoned, cxSwallowed,
                   cxIssuedAfter>>
    /\ UNCHANGED nonCxVars

\* Lines 52-55: the signal arrives, the handler runs at once in the main
\* thread and sys.exit(0) raises SystemExit where the program is. Inside
\* the try statement the bare except of line 140 catches it and the
\* program goes on with the loop; anywhere else the program ends there.
exit_on_ctrl_c ==
    /\ cxPc \in {"init", "try", "loop", "cycle"}
    /\ IF cxPc = "try" /\ (cxOps # <<>> \/ cxInflight # "")
       THEN /\ cxSwallowed' = TRUE
            /\ cxPc' = "loop"
            /\ UNCHANGED <<cxExit, cxAt, cxAbandoned>>
       ELSE /\ cxPc' = "exited"
            /\ cxExit' = "SystemExit"
            /\ cxAt' = cxPc
            /\ cxAbandoned' = cxInflight
            /\ UNCHANGED cxSwallowed
    /\ cxInflight' = ""
    /\ cxOps' = <<>>
    /\ UNCHANGED <<cxMode, cxState, cxIssuedAfter, cxCycles>>
    /\ UNCHANGED nonCxVars

\* The program with the handler about to be registered, in one of the six
\* modes.
CxInit ==
    /\ cxPc = "l110"
    /\ cxMode \in 0..5
    /\ cxOps = <<>>
    /\ cxInflight = ""
    /\ cxState = "OK"
    /\ cxExit = ""
    /\ cxAbandoned = ""
    /\ cxAt = ""
    /\ cxSwallowed = FALSE
    /\ cxIssuedAfter = 0
    /\ cxCycles = 0
    /\ Constructed("LeicaTPS1200", [hz |-> gon2rad(50), v |-> gon2rad(80)])
    /\ DecIdle
    /\ NmeaIdle
    /\ AngIdle
    /\ ConvIdle
    /\ HsIdle
    /\ MpIdle
    /\ ViIdle
    /\ CrIdle

CxNext ==
    \/ CxBegin
    \/ CxSend
    \/ CxReply
    \/ CxTry
    \/ CxLoopTest
    \/ exit_on_ctrl_c

SpecCancel == CxInit /\ [][CxNext]_vars

\* C31: a program ended by the interrupt signal ended at the test of the
\* loop, between two cycles, with no request left without its reply or its
\* timeout; and no operation is issued after an interrupt has arrived.
C31_HonoredBetweenCycles ==
    /\ cxExit = "SystemExit" => (cxAt = "loop" /\ cxAbandoned = "")
    /\ cxIssuedAfter = 0

====
